---- MODULE Spec2Model ----
(***************************************************************************)
(* Model of the FINN C++ driver's host-side buffer machinery:              *)
(*   - Finn::RingBuffer<T, multiThreaded>  (FINNCppDriver/utils)           *)
(*   - the part-validity Finn::RingBuffer<T>  (utils)                      *)
(*   - DeviceInputBuffer / DeviceOutputBuffer  (core/DeviceBuffer.hpp)     *)
(***************************************************************************)
EXTENDS Integers, Sequences, FiniteSets, TLC

(***************************************************************************)
(* Bounds of the model.                                                    *)
(***************************************************************************)
\* pParts of the boost-backed ring (capacity in parts)
Parts == 2
\* pElementsPerPart of the boost-backed ring
ElementsPerPart == 2
\* number of threads using the multi-threaded ring
NumThreads == 2
\* total number of store/read calls made on the multi-threaded ring
MaxCalls == 3

Threads == 1..NumThreads
NoThread == 0

VARIABLES
    \* ---- Finn::RingBuffer<T, true> -------------------------------------
    buffer,          \* finnBoost::circular_buffer<T> buffer (front first)
    readWriteMutex,  \* owner of readWriteMutex, NoThread when unlocked
    waiting,         \* threads blocked inside cv.wait / cv.wait_for
    pc,              \* position of each thread inside store / read
    arg,             \* [first, last) of the store a thread is executing
    pos,             \* element index of a running insert / std::copy
    out,             \* what a read has written through outputIt
    ret,             \* value returned by the thread's last call
    stoken,          \* stop_requested() of the token given to the read
    role,            \* "any", "producer" or "consumer"
    ops,             \* calls the thread still makes
    nextId,          \* identity given to the next stored part
    storedParts,     \* parts stored by stores that released the lock
    readParts,       \* parts read by reads that released the lock
    storedIds,       \* identities of the parts counted in storedParts
    readLog,         \* outputs of the reads counted in readParts, in order
    plan,            \* the number of calls each thread set out to make
    \* ---- Finn::RingBuffer<T, false> (shares buffer and nextId) ---------
    stCall,          \* the last call made on the single-threaded ring
    stCalls,         \* number of calls made on the single-threaded ring
    \* ---- DeviceInputBuffer<T, F> ---------------------------------------
    inRing,          \* ringBuffer: validParts, buffer, headPart, readPart
    partMutexes,     \* owner of each *partMutexes[i] of ringBuffer
    headPartMutex,   \* owner of headPartMutex of ringBuffer
    runMutex,        \* owner of runMutex
    inMap,           \* map: the host view of internalBo
    inDevice,        \* the device side of internalBo
    ipc,             \* position of each thread inside store / run
    islot,           \* indexP found by the thread's scan of validParts
    idata,           \* the data of the store a thread is executing
    iret,            \* value returned by the thread's last call
    icalls,          \* number of store/run calls made
    inNextId,        \* identity given to the next part handed to store
    storeLog,        \* the parts written by stores, in the order written
    loads,           \* number of loadMap calls that returned true
    kernelLog,       \* device memory at each kernel-run submitted, in order
    inflight,        \* kernel-runs submitted and not yet waited for
    inCallers,       \* the threads that call store and run on the buffer
    \* ---- DeviceOutputBuffer<T, F> --------------------------------------
    outRing,         \* ringBuffer: validParts, buffer, headPart, readPart
    outMap,          \* map: the host view of internalBo
    outDevice,       \* the device side of internalBo
    longTermStorage, \* the archive
    opc,             \* position of each thread inside read / archiveValidBufferParts
    osamples,        \* iterations the loop of read of a thread still makes
    oindex,          \* i of the loop of archiveValidBufferParts of a thread
    ocaller,         \* "read" or "direct": who called archiveValidBufferParts
    oret,            \* what retrieveArchive last returned to a thread
    outCallers,      \* the threads that call the methods of the buffer
    olast,           \* the method of the buffer that was called last
    ocalls,          \* number of calls made on the buffer
    outNextId,       \* identity of the next result the kernel produces
    produced,        \* the map after each sync, in order
    outOps,          \* the operations called on the buffer so far
    archAt,          \* archive and buffered parts when a thread's archiveValidBufferParts began
    \* ---- template parameter of Finn::RingBuffer<T, multiThreaded> -------
    multiThreaded,   \* the variant the boost-backed ring is instantiated as
    \* ---- BaseDriver::inferRaw ------------------------------------------
    dpc,             \* position of the caller inside inferRaw
    dargs,           \* the arguments of the inferRaw being executed
    stored,          \* bool stored of inferRaw
    ran,             \* bool ran of inferRaw
    resultState,     \* ert_cmd_state resultState of inferRaw
    dret,            \* what the last inferRaw returned
    dthrown,         \* the error the last inferRaw left with
    accLog,          \* the calls the inferRaw has made on the accelerator
    dcalls,          \* number of inferRaw calls made
    \* ---- DeviceHandler --------------------------------------------------
    devWrap,         \* the DeviceWrapper given to the constructor
    hpc,             \* position of the constructor
    device,          \* xrt::device device
    uuid,            \* xrt::uuid uuid
    kernels,         \* the xrt::kernel objects created, in order
    inputBufferMap,  \* kernel name -> DeviceInputBuffer
    outputBufferMap, \* kernel name -> DeviceOutputBuffer
    hthrown,         \* the error the constructor left with
    hcall,           \* the last dispatch call and its outcome
    hcalls,          \* number of dispatch calls made
    \* ---- Finn::Datatype<D>, Finn::pack / unpack --------------------------
    fcall,           \* the call made on a datatype or on the packing codec
    fret,            \* what that call returned
    \* ---- BaseDriver: defaults and inferSynchronous ----------------------
    defaultInputDeviceIndex,
    defaultInputKernelName,
    defaultOutputDeviceIndex,
    defaultOutputKernelName,
    batchElements,
    forceAchieval,
    scall,           \* the last inferSynchronous call: overload and arguments
    rawArgs          \* the arguments that call handed to inferRaw

mtVars == <<buffer, readWriteMutex, waiting, pc, arg, pos, out, ret, stoken,
            role, ops, nextId, storedParts, readParts, storedIds, readLog>>

stVars == <<stCall, stCalls>>

\* the variables of the multi-threaded ring that the single-threaded one lacks
mtOnly == <<readWriteMutex, waiting, pc, arg, pos, out, ret, stoken, role, ops,
            storedParts, readParts, storedIds, readLog, plan>>

inVars == <<inRing, partMutexes, headPartMutex, runMutex, inMap, inDevice, ipc,
            islot, idata, iret, icalls, inNextId, storeLog, loads, kernelLog,
            inflight, inCallers>>

outVars == <<outRing, outMap, outDevice, longTermStorage, opc, osamples, oindex,
             ocaller, oret, outCallers, olast, ocalls, outNextId, produced, outOps,
             archAt>>

\* the state kept outside the two rings and the two device buffers
drvVars == <<dpc, dargs, stored, ran, resultState, dret, dthrown, accLog, dcalls>>

dhVars == <<devWrap, hpc, device, uuid, kernels, inputBufferMap, outputBufferMap,
            hthrown, hcall, hcalls>>

fnVars == <<fcall, fret>>

bdVars == <<defaultInputDeviceIndex, defaultInputKernelName,
            defaultOutputDeviceIndex, defaultOutputKernelName, batchElements,
            forceAchieval, scall, rawArgs>>

extVars == <<multiThreaded, drvVars, dhVars, fnVars, bdVars>>

\* everything but the driver, and everything but the device handler
nonDrv == <<mtVars, plan, stVars, inVars, outVars, multiThreaded, dhVars, fnVars,
            bdVars>>

nonDh == <<mtVars, plan, stVars, inVars, outVars, multiThreaded, drvVars, fnVars,
           bdVars>>

nonFn == <<mtVars, plan, stVars, inVars, outVars, multiThreaded, drvVars, dhVars,
           bdVars>>

nonBd == <<mtVars, plan, stVars, inVars, outVars, multiThreaded, drvVars, dhVars,
           fnVars>>

nonMt == <<plan, stVars, inVars, outVars, extVars>>

nonSt == <<mtOnly, inVars, outVars, extVars>>

nonIn == <<buffer, nextId, mtOnly, stVars, outVars, extVars>>

nonOut == <<buffer, nextId, mtOnly, stVars, inVars, extVars>>

vars == <<mtVars, nonMt>>

(***************************************************************************)
(* finnBoost::circular_buffer<T>                                           *)
(***************************************************************************)
\* buffer.capacity(): the ring is constructed with pElementsPerPart * pParts
Capacity == ElementsPerPart * Parts

\* the elements of the part with identity id
PartOf(id) == [j \in 1..ElementsPerPart |-> <<id, j>>]

\* the data of k consecutive parts, the first with identity id
RECURSIVE PartsFrom(_, _)
PartsFrom(id, k) == IF k = 0 THEN <<>> ELSE PartOf(id) \o PartsFrom(id + 1, k - 1)

\* an element that was never stored (value-initialized T)
NoElement == <<0, 0>>

\* insert of one element at end(): a full circular buffer overwrites its front
CbInsertEnd(buf, e) ==
    IF Len(buf) < Capacity THEN Append(buf, e) ELSE Append(Tail(buf), e)

\* *(buffer.begin() + i - 1)
CbAt(buf, i) == IF i <= Len(buf) THEN buf[i] ELSE NoElement

\* buffer.erase(begin, begin + n)
CbEraseFront(buf, n) == IF n >= Len(buf) THEN <<>> ELSE SubSeq(buf, n + 1, Len(buf))

freeSpaceNotLocked == Capacity - Len(buffer)

(***************************************************************************)
(* std::mutex / std::condition_variable                                    *)
(***************************************************************************)
\* fault injection for C2: a lock that never excludes anybody
MutexFreeAlways == TRUE

\* std::unique_lock lk(readWriteMutex) can be taken
MutexFree == readWriteMutex = NoThread

\* fault injection for C1: a store that never waits for room
StoreFitsAlways(datasize) == TRUE

\* predicate of the cv.wait in store
StoreFits(datasize) == datasize <= freeSpaceNotLocked

\* predicate of the cv.wait_for in read
ReadReady == Len(buffer) >= ElementsPerPart

\* the pc a thread blocked in a wait continues at once it is woken
Woken(p) == IF p = "s_wait" THEN "s_woken" ELSE "r_woken"

\* cv.notify_one() by thread t, which then returns r: wakes one waiter, if any
NotifyOne(t, r) ==
    /\ ret' = [ret EXCEPT ![t] = r]
    /\ IF waiting = {}
         THEN /\ pc' = [pc EXCEPT ![t] = "idle"]
              /\ UNCHANGED waiting
         ELSE \E w \in waiting :
                /\ waiting' = waiting \ {w}
                /\ pc' = [pc EXCEPT ![t] = "idle", ![w] = Woken(pc[w])]

(***************************************************************************)
(* RingBuffer<T, true>::store                                              *)
(***************************************************************************)
\* a thread calls store(first, last) with k parts of data
CallStore(t, k) ==
    /\ pc[t] = "idle"
    /\ ops[t] > 0
    /\ role[t] \in {"any", "producer"}
    /\ role[t] = "producer" => k = 1
    /\ ops' = [ops EXCEPT ![t] = @ - 1]
    /\ arg' = [arg EXCEPT ![t] = PartsFrom(nextId, k)]
    /\ nextId' = nextId + k
    /\ ret' = [ret EXCEPT ![t] = "none"]
    /\ pc' = [pc EXCEPT ![t] = "s_lock"]
    /\ UNCHANGED <<buffer, readWriteMutex, waiting, pos, out, stoken, role,
                   storedParts, readParts, storedIds, readLog>>
    /\ UNCHANGED nonMt

\* std::unique_lock lk(readWriteMutex); if (datasize > freeSpaceNotLocked())
\* cv.wait(lk, pred).  The lock is held from its acquisition to the test of
\* the predicate, also when cv.wait re-acquires it after a wake-up; a wait
\* releases it.
StoreLock(t) ==
    /\ pc[t] \in {"s_lock", "s_woken"}
    /\ MutexFree
    /\ IF StoreFits(Len(arg[t]))
         THEN /\ pc' = [pc EXCEPT ![t] = "s_insert"]
              /\ readWriteMutex' = t
              /\ pos' = [pos EXCEPT ![t] = 0]
              /\ UNCHANGED waiting
         ELSE /\ pc' = [pc EXCEPT ![t] = "s_wait"]
              /\ readWriteMutex' = NoThread
              /\ waiting' = waiting \cup {t}
              /\ UNCHANGED pos
    /\ UNCHANGED <<buffer, arg, out, ret, stoken, role, ops, nextId,
                   storedParts, readParts, storedIds, readLog>>
    /\ UNCHANGED nonMt

\* buffer.insert(buffer.end(), first, last), one element at a time
StoreInsert(t) ==
    /\ pc[t] = "s_insert"
    /\ buffer' = CbInsertEnd(buffer, arg[t][pos[t] + 1])
    /\ pos' = [pos EXCEPT ![t] = @ + 1]
    /\ pc' = [pc EXCEPT ![t] = IF pos[t] + 1 = Len(arg[t]) THEN "s_unlock" ELSE "s_insert"]
    /\ UNCHANGED <<readWriteMutex, waiting, arg, out, ret, stoken, role, ops,
                   nextId, storedParts, readParts, storedIds, readLog>>
    /\ UNCHANGED nonMt

\* lk.unlock()
StoreUnlock(t) ==
    /\ pc[t] = "s_unlock"
    /\ readWriteMutex' = NoThread
    /\ storedParts' = storedParts + (Len(arg[t]) \div ElementsPerPart)
    /\ storedIds' = storedIds \cup {arg[t][i][1] : i \in 1..Len(arg[t])}
    /\ pc' = [pc EXCEPT ![t] = "s_notify"]
    /\ UNCHANGED <<buffer, waiting, arg, pos, out, ret, stoken, role, ops,
                   nextId, readParts, readLog>>
    /\ UNCHANGED nonMt

\* cv.notify_one(); return true
StoreNotify(t) ==
    /\ pc[t] = "s_notify"
    /\ NotifyOne(t, "true")
    /\ UNCHANGED <<buffer, readWriteMutex, arg, pos, out, stoken, role, ops,
                   nextId, storedParts, readParts, storedIds, readLog>>
    /\ UNCHANGED nonMt

(***************************************************************************)
(* RingBuffer<T, true>::read                                               *)
(***************************************************************************)
\* a thread calls read(outputIt, stoken)
CallRead(t) ==
    /\ pc[t] = "idle"
    /\ ops[t] > 0
    /\ role[t] \in {"any", "consumer"}
    /\ ops' = [ops EXCEPT ![t] = @ - 1]
    /\ out' = [out EXCEPT ![t] = <<>>]
    /\ stoken' = [stoken EXCEPT ![t] = FALSE]
    /\ ret' = [ret EXCEPT ![t] = "none"]
    /\ pc' = [pc EXCEPT ![t] = "r_lock"]
    /\ UNCHANGED <<buffer, readWriteMutex, waiting, arg, pos, role, nextId,
                   storedParts, readParts, storedIds, readLog>>
    /\ UNCHANGED nonMt

\* std::unique_lock lk(readWriteMutex); if (buffer.size() < elementsPerPart)
\* while (!cv.wait_for(lk, 2000ms, pred)).  The lock is held from its
\* acquisition to the test of the predicate, also when cv.wait_for
\* re-acquires it after a wake-up; a wait releases it.
ReadLock(t) ==
    /\ pc[t] \in {"r_lock", "r_woken"}
    /\ MutexFree
    /\ IF ReadReady
         THEN /\ pc' = [pc EXCEPT ![t] = "r_copy"]
              /\ readWriteMutex' = t
              /\ pos' = [pos EXCEPT ![t] = 0]
              /\ UNCHANGED waiting
         ELSE /\ pc' = [pc EXCEPT ![t] = "r_wait"]
              /\ readWriteMutex' = NoThread
              /\ waiting' = waiting \cup {t}
              /\ UNCHANGED pos
    /\ UNCHANGED <<buffer, arg, out, ret, stoken, role, ops, nextId,
                   storedParts, readParts, storedIds, readLog>>
    /\ UNCHANGED nonMt

\* the 2000ms of wait_for pass and the predicate holds: wait_for returns true.
\* (When it does not hold and no stop was requested the loop waits again,
\* which leaves every variable as it was.)
ReadTimeoutReady(t) ==
    /\ pc[t] = "r_wait"
    /\ MutexFree
    /\ ReadReady
    /\ readWriteMutex' = t
    /\ waiting' = waiting \ {t}
    /\ pc' = [pc EXCEPT ![t] = "r_copy"]
    /\ pos' = [pos EXCEPT ![t] = 0]
    /\ UNCHANGED <<buffer, arg, out, ret, stoken, role, ops, nextId,
                   storedParts, readParts, storedIds, readLog>>
    /\ UNCHANGED nonMt

\* fault injection for C10: a read that never looks at its token
StopNeverSeen(t) == FALSE

\* the token of the read was asked to stop
StopRequested(t) == stoken[t]

\* the 2000ms pass, the predicate does not hold: wait_for returns false and
\* if (stoken.stop_requested()) return false
ReadTimeoutStop(t) ==
    /\ pc[t] = "r_wait"
    /\ MutexFree
    /\ ~ReadReady
    /\ StopRequested(t)
    /\ waiting' = waiting \ {t}
    /\ pc' = [pc EXCEPT ![t] = "idle"]
    /\ ret' = [ret EXCEPT ![t] = "false"]
    /\ UNCHANGED <<buffer, readWriteMutex, arg, pos, out, stoken, role, ops,
                   nextId, storedParts, readParts, storedIds, readLog>>
    /\ UNCHANGED nonMt

\* std::copy(begin, begin + elementsPerPart, outputIt), one element at a time
ReadCopy(t) ==
    /\ pc[t] = "r_copy"
    /\ out' = [out EXCEPT ![t] = Append(@, CbAt(buffer, pos[t] + 1))]
    /\ pos' = [pos EXCEPT ![t] = @ + 1]
    /\ pc' = [pc EXCEPT ![t] = IF pos[t] + 1 = ElementsPerPart THEN "r_erase" ELSE "r_copy"]
    /\ UNCHANGED <<buffer, readWriteMutex, waiting, arg, ret, stoken, role,
                   ops, nextId, storedParts, readParts, storedIds, readLog>>
    /\ UNCHANGED nonMt

\* buffer.erase(begin, begin + elementsPerPart)
ReadErase(t) ==
    /\ pc[t] = "r_erase"
    /\ buffer' = CbEraseFront(buffer, ElementsPerPart)
    /\ pc' = [pc EXCEPT ![t] = "r_unlock"]
    /\ UNCHANGED <<readWriteMutex, waiting, arg, pos, out, ret, stoken, role,
                   ops, nextId, storedParts, readParts, storedIds, readLog>>
    /\ UNCHANGED nonMt

\* lk.unlock()
ReadUnlock(t) ==
    /\ pc[t] = "r_unlock"
    /\ readWriteMutex' = NoThread
    /\ readParts' = readParts + 1
    /\ readLog' = Append(readLog, out[t])
    /\ pc' = [pc EXCEPT ![t] = "r_notify"]
    /\ UNCHANGED <<buffer, waiting, arg, pos, out, ret, stoken, role, ops,
                   nextId, storedParts, storedIds>>
    /\ UNCHANGED nonMt

\* fault injection for C9: a read that returns true without cv.notify_one()
ReadNotifyLost(t) ==
    /\ pc[t] = "r_notify"
    /\ ret' = [ret EXCEPT ![t] = "true"]
    /\ pc' = [pc EXCEPT ![t] = "idle"]
    /\ UNCHANGED <<buffer, readWriteMutex, waiting, arg, pos, out, stoken, role,
                   ops, nextId, storedParts, readParts, storedIds, readLog>>
    /\ UNCHANGED nonMt

\* cv.notify_one(); return true
ReadNotify(t) ==
    /\ pc[t] = "r_notify"
    /\ NotifyOne(t, "true")
    /\ UNCHANGED <<buffer, readWriteMutex, arg, pos, out, stoken, role, ops,
                   nextId, storedParts, readParts, storedIds, readLog>>
    /\ UNCHANGED nonMt

\* the owner of the stop source requests the stop of a read.  The token is
\* looked at only after a wait_for that timed out, so a request made earlier
\* in the read is seen exactly as one made while the read waits.
RequestStop(t) ==
    /\ pc[t] = "r_wait"
    /\ ~stoken[t]
    /\ stoken' = [stoken EXCEPT ![t] = TRUE]
    /\ UNCHANGED <<buffer, readWriteMutex, waiting, pc, arg, pos, out, ret,
                   role, ops, nextId, storedParts, readParts, storedIds, readLog>>
    /\ UNCHANGED nonMt

\* a condition variable may wake a waiter that nobody notified
SpuriousWake(t) ==
    /\ t \in waiting
    /\ waiting' = waiting \ {t}
    /\ pc' = [pc EXCEPT ![t] = Woken(pc[t])]
    /\ UNCHANGED <<buffer, readWriteMutex, arg, pos, out, ret, stoken, role,
                   ops, nextId, storedParts, readParts, storedIds, readLog>>
    /\ UNCHANGED nonMt

(***************************************************************************)
(* RingBuffer<T, false>: store and read of the single-threaded variant.    *)
(***************************************************************************)
\* number of calls made on the single-threaded ring
MaxStCalls == 5

\* buffer.insert(buffer.end(), first, last)
RECURSIVE CbInsertAll(_, _)
CbInsertAll(buf, data) ==
    IF data = <<>> THEN buf ELSE CbInsertAll(CbInsertEnd(buf, Head(data)), Tail(data))

\* fault injection for C8: a store that also refuses data that exactly fits
StoreRejectsOffByOne(datasize) == datasize >= freeSpaceNotLocked

\* if (datasize > freeSpaceNotLocked()) return false
StoreRejects(datasize) == datasize > freeSpaceNotLocked

\* if (buffer.size() < elementsPerPart) return false
ReadRejects == Len(buffer) < ElementsPerPart

\* store(first, last) with k parts of data
StStore(k) ==
    /\ stCalls < MaxStCalls
    /\ stCalls' = stCalls + 1
    /\ nextId' = nextId + k
    /\ LET data == PartsFrom(nextId, k) IN
         IF StoreRejects(Len(data))
           THEN /\ buffer' = buffer
                /\ stCall' = [op |-> "store", data |-> data, before |-> buffer,
                              ok |-> FALSE, outp |-> <<>>]
           ELSE /\ buffer' = CbInsertAll(buffer, data)
                /\ stCall' = [op |-> "store", data |-> data, before |-> buffer,
                              ok |-> TRUE, outp |-> <<>>]
    /\ UNCHANGED nonSt

\* read(outputIt)
StRead ==
    /\ stCalls < MaxStCalls
    /\ stCalls' = stCalls + 1
    /\ UNCHANGED nextId
    /\ IF ReadRejects
         THEN /\ buffer' = buffer
              /\ stCall' = [op |-> "read", data |-> <<>>, before |-> buffer,
                            ok |-> FALSE, outp |-> <<>>]
         ELSE /\ buffer' = CbEraseFront(buffer, ElementsPerPart)
              /\ stCall' = [op |-> "read", data |-> <<>>, before |-> buffer,
                            ok |-> TRUE,
                            outp |-> [j \in 1..ElementsPerPart |-> CbAt(buffer, j)]]
    /\ UNCHANGED nonSt

(***************************************************************************)
(* Finn::RingBuffer<T> of utils/RingBuffer.hpp: parts with validity flags. *)
(***************************************************************************)
\* ringBufferSizeFactor: parts of the ring of a device buffer
RingParts == 2

PartIndex == 0..(RingParts - 1)

\* a part of value-initialized elements
ZeroPart == [j \in 1..ElementsPerPart |-> NoElement]

\* the ring after construction: no part valid, both pointers 0
RbNew ==
    [validParts |-> [i \in PartIndex |-> FALSE],
     buffer     |-> [i \in PartIndex |-> ZeroPart],
     headPart   |-> 0,
     readPart   |-> 0]

\* the loop `for i < parts: indexP = (from + i) % parts; if (validParts[indexP] == want)`:
\* the first index found, -1 when the loop ends without one
RbScan(r, from, want) ==
    LET hits == {i \in 0..(RingParts - 1) : r.validParts[(from + i) % RingParts] = want}
    IN  IF hits = {} THEN -1
        ELSE (from + (CHOOSE i \in hits : \A k \in hits : i <= k)) % RingParts

\* body of store once indexP is found and both mutexes are held
RbWrite(r, indexP, data) ==
    [r EXCEPT !.buffer[indexP] = data,
              !.validParts[indexP] = TRUE,
              !.headPart = (indexP + 1) % RingParts]

\* the value read assigns to validParts[indexP]
ReadMark == TRUE

\* body of read once indexP is found and both mutexes are held
RbTake(r, indexP) ==
    [r EXCEPT !.validParts[indexP] = ReadMark,
              !.readPart = (indexP + 1) % RingParts]

\* store(data, datasize) with datasize = elementsPerPart, run by one thread
RbStore(r, data) ==
    LET indexP == RbScan(r, r.headPart, FALSE)
    IN  IF indexP = -1 THEN [ok |-> FALSE, ring |-> r]
        ELSE [ok |-> TRUE, ring |-> RbWrite(r, indexP, data)]

\* read(outData, datasize) with datasize = elementsPerPart, run by one thread
RbRead(r) ==
    LET indexP == RbScan(r, r.readPart, TRUE)
    IN  IF indexP = -1 THEN [ok |-> FALSE, outData |-> ZeroPart, ring |-> r]
        ELSE [ok |-> TRUE, outData |-> r.buffer[indexP], ring |-> RbTake(r, indexP)]

countValidParts(r) == Cardinality({i \in PartIndex : r.validParts[i]})

isFull(r) == countValidParts(r) = RingParts

(***************************************************************************)
(* DeviceInputBuffer<T, F>: store and run called by several threads.       *)
(***************************************************************************)
\* number of threads using the device input buffer
NumInThreads == 2
\* total number of store/run calls made on the device input buffer
MaxInCalls == 4

InThreads == 1..NumInThreads

InInit ==
    /\ inRing = RbNew
    /\ partMutexes = [i \in PartIndex |-> NoThread]
    /\ headPartMutex = NoThread
    /\ runMutex = NoThread
    /\ inMap = ZeroPart
    /\ inDevice = ZeroPart
    /\ ipc = [t \in InThreads |-> "idle"]
    /\ islot = [t \in InThreads |-> -1]
    /\ idata = [t \in InThreads |-> ZeroPart]
    /\ iret = [t \in InThreads |-> "none"]
    /\ icalls = 0
    /\ inNextId = 1
    /\ storeLog = <<>>
    /\ loads = 0
    /\ kernelLog = <<>>
    /\ inflight = 0

\* fault injection for C3: run() without its lock_guard
RunMutexIgnored == TRUE

\* std::lock_guard guard(runMutex) can be taken
RunMutexFree == runMutex = NoThread

\* fault injection for C12: a ring whose store and read take no mutex
RingMutexesIgnored(indexP) == TRUE

\* the two lock_guards of the ring (part mutex, then headPartMutex) can be taken
RingMutexesFree(indexP) ==
    /\ partMutexes[indexP] = NoThread
    /\ headPartMutex = NoThread

\* a thread calls store(data) with one part of data
InCallStore(t) ==
    /\ t \in inCallers
    /\ ipc[t] = "idle"
    /\ icalls < MaxInCalls
    /\ icalls' = icalls + 1
    /\ idata' = [idata EXCEPT ![t] = PartOf(inNextId)]
    /\ inNextId' = inNextId + 1
    /\ iret' = [iret EXCEPT ![t] = "none"]
    /\ ipc' = [ipc EXCEPT ![t] = "st_scan"]
    /\ UNCHANGED <<inRing, partMutexes, headPartMutex, runMutex, inMap, inDevice,
                   islot, storeLog, loads, kernelLog, inflight>>
    /\ UNCHANGED <<inCallers, nonIn>>

\* RingBuffer::store: the search for an invalid part, no mutex held
InStoreScan(t) ==
    /\ ipc[t] = "st_scan"
    /\ LET indexP == RbScan(inRing, inRing.headPart, FALSE) IN
         /\ islot' = [islot EXCEPT ![t] = indexP]
         /\ IF indexP = -1
              THEN /\ ipc' = [ipc EXCEPT ![t] = "idle"]
                   /\ iret' = [iret EXCEPT ![t] = "false"]
              ELSE /\ ipc' = [ipc EXCEPT ![t] = "st_lock"]
                   /\ UNCHANGED iret
    /\ UNCHANGED <<inRing, partMutexes, headPartMutex, runMutex, inMap, inDevice,
                   idata, icalls, inNextId, storeLog, loads, kernelLog, inflight>>
    /\ UNCHANGED <<inCallers, nonIn>>

\* RingBuffer::store: guardPartMutex, guardHeadMutex
InStoreLock(t) ==
    /\ ipc[t] = "st_lock"
    /\ RingMutexesFree(islot[t])
    /\ partMutexes' = [partMutexes EXCEPT ![islot[t]] = t]
    /\ headPartMutex' = t
    /\ ipc' = [ipc EXCEPT ![t] = "st_write"]
    /\ UNCHANGED <<inRing, runMutex, inMap, inDevice, islot, idata, iret, icalls,
                   inNextId, storeLog, loads, kernelLog, inflight>>
    /\ UNCHANGED <<inCallers, nonIn>>

\* RingBuffer::store: copy, validParts[indexP] = true, headPart, return true
InStoreWrite(t) ==
    /\ ipc[t] = "st_write"
    /\ inRing' = RbWrite(inRing, islot[t], idata[t])
    /\ storeLog' = Append(storeLog, idata[t])
    /\ partMutexes' = [partMutexes EXCEPT ![islot[t]] = NoThread]
    /\ headPartMutex' = NoThread
    /\ iret' = [iret EXCEPT ![t] = "true"]
    /\ ipc' = [ipc EXCEPT ![t] = "idle"]
    /\ UNCHANGED <<runMutex, inMap, inDevice, islot, idata, icalls, inNextId,
                   loads, kernelLog, inflight>>
    /\ UNCHANGED <<inCallers, nonIn>>

\* a thread calls run()
InCallRun(t) ==
    /\ t \in inCallers
    /\ ipc[t] = "idle"
    /\ icalls < MaxInCalls
    /\ icalls' = icalls + 1
    /\ iret' = [iret EXCEPT ![t] = "none"]
    /\ ipc' = [ipc EXCEPT ![t] = "run_lock"]
    /\ UNCHANGED <<inRing, partMutexes, headPartMutex, runMutex, inMap, inDevice,
                   islot, idata, inNextId, storeLog, loads, kernelLog, inflight>>
    /\ UNCHANGED <<inCallers, nonIn>>

\* run: std::lock_guard<std::mutex> guard(runMutex)
InRunLock(t) ==
    /\ ipc[t] = "run_lock"
    /\ RunMutexFree
    /\ runMutex' = t
    /\ ipc' = [ipc EXCEPT ![t] = "run_scan"]
    /\ UNCHANGED <<inRing, partMutexes, headPartMutex, inMap, inDevice, islot,
                   idata, iret, icalls, inNextId, storeLog, loads, kernelLog,
                   inflight>>
    /\ UNCHANGED <<inCallers, nonIn>>

\* loadMap -> RingBuffer::read: the search for a valid part; when there is
\* none read returns false and run returns false, releasing runMutex
InRunScan(t) ==
    /\ ipc[t] = "run_scan"
    /\ LET indexP == RbScan(inRing, inRing.readPart, TRUE) IN
         /\ islot' = [islot EXCEPT ![t] = indexP]
         /\ IF indexP = -1
              THEN /\ ipc' = [ipc EXCEPT ![t] = "idle"]
                   /\ iret' = [iret EXCEPT ![t] = "false"]
                   /\ runMutex' = NoThread
              ELSE /\ ipc' = [ipc EXCEPT ![t] = "run_load"]
                   /\ UNCHANGED <<iret, runMutex>>
    /\ UNCHANGED <<inRing, partMutexes, headPartMutex, inMap, inDevice, idata,
                   icalls, inNextId, storeLog, loads, kernelLog, inflight>>
    /\ UNCHANGED <<inCallers, nonIn>>

\* RingBuffer::read: guardPartMutex, guardHeadMutex
InRunLoadLock(t) ==
    /\ ipc[t] = "run_load"
    /\ RingMutexesFree(islot[t])
    /\ partMutexes' = [partMutexes EXCEPT ![islot[t]] = t]
    /\ headPartMutex' = t
    /\ ipc' = [ipc EXCEPT ![t] = "run_copy"]
    /\ UNCHANGED <<inRing, runMutex, inMap, inDevice, islot, idata, iret, icalls,
                   inNextId, storeLog, loads, kernelLog, inflight>>
    /\ UNCHANGED <<inCallers, nonIn>>

\* RingBuffer::read: copy the part into map, validParts[indexP], readPart, return true
InRunLoadCopy(t) ==
    /\ ipc[t] = "run_copy"
    /\ inMap' = inRing.buffer[islot[t]]
    /\ inRing' = RbTake(inRing, islot[t])
    /\ loads' = loads + 1
    /\ partMutexes' = [partMutexes EXCEPT ![islot[t]] = NoThread]
    /\ headPartMutex' = NoThread
    /\ ipc' = [ipc EXCEPT ![t] = "run_sync"]
    /\ UNCHANGED <<runMutex, inDevice, islot, idata, iret, icalls, inNextId,
                   storeLog, kernelLog, inflight>>
    /\ UNCHANGED <<inCallers, nonIn>>

\* sync(): internalBo.sync(XCL_BO_SYNC_BO_TO_DEVICE)
InRunSync(t) ==
    /\ ipc[t] = "run_sync"
    /\ inDevice' = inMap
    /\ ipc' = [ipc EXCEPT ![t] = "run_exec"]
    /\ UNCHANGED <<inRing, partMutexes, headPartMutex, runMutex, inMap, islot,
                   idata, iret, icalls, inNextId, storeLog, loads, kernelLog,
                   inflight>>
    /\ UNCHANGED <<inCallers, nonIn>>

\* execute(): auto run = associatedKernel(internalBo, 1)
InRunSubmit(t) ==
    /\ ipc[t] = "run_exec"
    /\ kernelLog' = Append(kernelLog, inDevice)
    /\ inflight' = inflight + 1
    /\ ipc' = [ipc EXCEPT ![t] = "run_wait"]
    /\ UNCHANGED <<inRing, partMutexes, headPartMutex, runMutex, inMap, inDevice,
                   islot, idata, iret, icalls, inNextId, storeLog, loads>>
    /\ UNCHANGED <<inCallers, nonIn>>

\* execute(): run.wait(), then return true, releasing runMutex
InRunWait(t) ==
    /\ ipc[t] = "run_wait"
    /\ inflight' = inflight - 1
    /\ runMutex' = NoThread
    /\ iret' = [iret EXCEPT ![t] = "true"]
    /\ ipc' = [ipc EXCEPT ![t] = "idle"]
    /\ UNCHANGED <<inRing, partMutexes, headPartMutex, inMap, inDevice, islot,
                   idata, icalls, inNextId, storeLog, loads, kernelLog>>
    /\ UNCHANGED <<inCallers, nonIn>>



(***************************************************************************)
(* DeviceOutputBuffer<T, F>: read, archiveValidBufferParts,                *)
(* retrieveArchive, clearArchive.  No method takes a lock.                 *)
(***************************************************************************)
\* largest argument of read(samples)
MaxSamples == 3
\* number of calls made on the device output buffer
MaxOutCalls == 3
\* number of threads using the device output buffer
NumOutThreads == 2

OutThreads == 1..NumOutThreads

OutInit ==
    /\ outRing = RbNew
    /\ outMap = ZeroPart
    /\ outDevice = ZeroPart
    /\ longTermStorage = <<>>
    /\ opc = [t \in OutThreads |-> "idle"]
    /\ osamples = [t \in OutThreads |-> 0]
    /\ oindex = [t \in OutThreads |-> 0]
    /\ ocaller = [t \in OutThreads |-> "none"]
    /\ oret = [t \in OutThreads |-> <<>>]
    /\ olast = "none"
    /\ ocalls = 0
    /\ outNextId = 1
    /\ produced = <<>>
    /\ outOps = {}
    /\ archAt = [t \in OutThreads |-> [archive |-> <<>>, buffered |-> <<>>]]

\* the valid parts of a ring, oldest first (from readPart on)
RECURSIVE BufferedFrom(_, _)
BufferedFrom(r, i) ==
    IF i = RingParts THEN <<>>
    ELSE LET indexP == (r.readPart + i) % RingParts
         IN  (IF r.validParts[indexP] THEN <<r.buffer[indexP]>> ELSE <<>>)
             \o BufferedFrom(r, i + 1)

Buffered(r) == BufferedFrom(r, 0)

\* what longTermStorage.back() holds after ringBuffer.read(longTermStorage.back(), n):
\* read<C>(C outData, size_t) takes the vector by value (C = std::vector<T>),
\* so it fills its own copy and the archived vector keeps the
\* value-initialized elements it was pushed with
ArchivedVector(outData) == ZeroPart

\* the end of one iteration of the loop of read
OutIterationEnd(t) ==
    /\ osamples' = [osamples EXCEPT ![t] = @ - 1]
    /\ opc' = [opc EXCEPT ![t] = IF osamples[t] - 1 = 0 THEN "idle" ELSE "exec"]

\* read(samples) is called
OutCallRead(t, n) ==
    /\ t \in outCallers
    /\ opc[t] = "idle"
    /\ ocalls < MaxOutCalls
    /\ ocalls' = ocalls + 1
    /\ olast' = "read"
    /\ outOps' = outOps \cup {"read"}
    /\ osamples' = [osamples EXCEPT ![t] = n]
    /\ opc' = [opc EXCEPT ![t] = "exec"]
    /\ UNCHANGED <<outRing, outMap, outDevice, longTermStorage, oindex, ocaller,
                   oret, outNextId, produced, archAt>>
    /\ UNCHANGED <<outCallers, nonOut>>

\* execute(): the kernel-run writes a new result to the device side
OutExecute(t) ==
    /\ opc[t] = "exec"
    /\ outDevice' = PartOf(outNextId)
    /\ outNextId' = outNextId + 1
    /\ opc' = [opc EXCEPT ![t] = "sync"]
    /\ UNCHANGED <<outRing, outMap, longTermStorage, osamples, oindex, ocaller,
                   oret, ocalls, produced, outOps, archAt>>
    /\ UNCHANGED <<olast, outCallers, nonOut>>

\* sync(): internalBo.sync(XCL_BO_SYNC_BO_FROM_DEVICE)
OutSync(t) ==
    /\ opc[t] = "sync"
    /\ outMap' = outDevice
    /\ produced' = Append(produced, outDevice)
    /\ opc' = [opc EXCEPT ![t] = "save"]
    /\ UNCHANGED <<outRing, outDevice, longTermStorage, osamples, oindex, ocaller,
                   oret, ocalls, outNextId, outOps, archAt>>
    /\ UNCHANGED <<olast, outCallers, nonOut>>

\* saveMap(): ringBuffer.store(map, mapSize), its result is not looked at
OutSaveMap(t) ==
    /\ opc[t] = "save"
    /\ outRing' = RbStore(outRing, outMap).ring
    /\ opc' = [opc EXCEPT ![t] = "full"]
    /\ UNCHANGED <<outMap, outDevice, longTermStorage, osamples, oindex, ocaller,
                   oret, ocalls, outNextId, produced, outOps, archAt>>
    /\ UNCHANGED <<olast, outCallers, nonOut>>

\* if (ringBuffer.isFull()) archiveValidBufferParts()
OutIsFull(t) ==
    /\ opc[t] = "full"
    /\ IF isFull(outRing)
         THEN /\ opc' = [opc EXCEPT ![t] = "archive"]
              /\ oindex' = [oindex EXCEPT ![t] = 0]
              /\ ocaller' = [ocaller EXCEPT ![t] = "read"]
              /\ archAt' = [archAt EXCEPT ![t] = [archive |-> longTermStorage,
                                                  buffered |-> Buffered(outRing)]]
              /\ UNCHANGED osamples
         ELSE /\ OutIterationEnd(t)
              /\ UNCHANGED <<oindex, ocaller, archAt>>
    /\ UNCHANGED <<outRing, outMap, outDevice, longTermStorage, oret, ocalls,
                   outNextId, produced, outOps>>
    /\ UNCHANGED <<olast, outCallers, nonOut>>

\* archiveValidBufferParts() is called by the user
OutCallArchive(t) ==
    /\ t \in outCallers
    /\ opc[t] = "idle"
    /\ ocalls < MaxOutCalls
    /\ ocalls' = ocalls + 1
    /\ olast' = "archive"
    /\ outOps' = outOps \cup {"archive"}
    /\ opc' = [opc EXCEPT ![t] = "archive"]
    /\ oindex' = [oindex EXCEPT ![t] = 0]
    /\ ocaller' = [ocaller EXCEPT ![t] = "direct"]
    /\ archAt' = [archAt EXCEPT ![t] = [archive |-> longTermStorage,
                                        buffered |-> Buffered(outRing)]]
    /\ UNCHANGED <<outRing, outMap, outDevice, longTermStorage, osamples, oret,
                   outNextId, produced>>
    /\ UNCHANGED <<outCallers, nonOut>>

\* one iteration of the loop of archiveValidBufferParts: push_back of a
\* vector of value-initialized elements, then ringBuffer.read(back(), n)
OutArchiveStep(t) ==
    /\ opc[t] = "archive"
    /\ oindex[t] < RingParts
    /\ LET rd == RbRead(outRing) IN
         /\ longTermStorage' = Append(longTermStorage, ArchivedVector(rd.outData))
         /\ outRing' = rd.ring
    /\ oindex' = [oindex EXCEPT ![t] = @ + 1]
    /\ UNCHANGED <<outMap, outDevice, opc, osamples, ocaller, oret, ocalls,
                   outNextId, produced, outOps, archAt>>
    /\ UNCHANGED <<olast, outCallers, nonOut>>

\* the loop of archiveValidBufferParts ends
OutArchiveEnd(t) ==
    /\ opc[t] = "archive"
    /\ oindex[t] = RingParts
    /\ opc' = [opc EXCEPT ![t] = "archived"]
    /\ UNCHANGED <<outRing, outMap, outDevice, longTermStorage, osamples, oindex,
                   ocaller, oret, ocalls, outNextId, produced, outOps, archAt>>
    /\ UNCHANGED <<olast, outCallers, nonOut>>

\* archiveValidBufferParts returns, to the loop of read or to the user
OutArchiveReturn(t) ==
    /\ opc[t] = "archived"
    /\ IF ocaller[t] = "read"
         THEN OutIterationEnd(t)
         ELSE /\ opc' = [opc EXCEPT ![t] = "idle"]
              /\ UNCHANGED osamples
    /\ UNCHANGED <<outRing, outMap, outDevice, longTermStorage, oindex, ocaller,
                   oret, ocalls, outNextId, produced, outOps, archAt>>
    /\ UNCHANGED <<olast, outCallers, nonOut>>

\* fault injection for C14: a retrieveArchive that moves the archive out
OutRetrieveArchiveMoves(t) ==
    /\ t \in outCallers
    /\ opc[t] = "idle"
    /\ ocalls < MaxOutCalls
    /\ ocalls' = ocalls + 1
    /\ olast' = "retrieve"
    /\ outOps' = outOps \cup {"retrieve"}
    /\ oret' = [oret EXCEPT ![t] = longTermStorage]
    /\ longTermStorage' = <<>>
    /\ UNCHANGED <<outRing, outMap, outDevice, opc, osamples,
                   oindex, ocaller, outNextId, produced, archAt>>
    /\ UNCHANGED <<outCallers, nonOut>>

\* retrieveArchive(): returns a copy of longTermStorage
OutRetrieveArchive(t) ==
    /\ t \in outCallers
    /\ opc[t] = "idle"
    /\ ocalls < MaxOutCalls
    /\ ocalls' = ocalls + 1
    /\ olast' = "retrieve"
    /\ outOps' = outOps \cup {"retrieve"}
    /\ oret' = [oret EXCEPT ![t] = longTermStorage]
    /\ UNCHANGED <<outRing, outMap, outDevice, longTermStorage, opc, osamples,
                   oindex, ocaller, outNextId, produced, archAt>>
    /\ UNCHANGED <<outCallers, nonOut>>

\* clearArchive(): longTermStorage.resize(0)
OutClearArchive(t) ==
    /\ t \in outCallers
    /\ opc[t] = "idle"
    /\ ocalls < MaxOutCalls
    /\ ocalls' = ocalls + 1
    /\ olast' = "clear"
    /\ outOps' = outOps \cup {"clear"}
    /\ longTermStorage' = <<>>
    /\ UNCHANGED <<outRing, outMap, outDevice, opc, osamples, oindex, ocaller,
                   oret, outNextId, produced, archAt>>
    /\ UNCHANGED <<outCallers, nonOut>>

(***************************************************************************)
(* Initial states: every object as its constructor leaves it.              *)
(***************************************************************************)
\* the boost-backed ring after construction, no thread inside a call
MtInit ==
    /\ buffer = <<>>
    /\ readWriteMutex = NoThread
    /\ waiting = {}
    /\ pc = [t \in Threads |-> "idle"]
    /\ arg = [t \in Threads |-> <<>>]
    /\ pos = [t \in Threads |-> 0]
    /\ out = [t \in Threads |-> <<>>]
    /\ ret = [t \in Threads |-> "none"]
    /\ stoken = [t \in Threads |-> FALSE]
    /\ nextId = 1
    /\ storedParts = 0
    /\ readParts = 0
    /\ storedIds = {}
    /\ readLog = <<>>

\* no call was made on the single-threaded ring
StIdle ==
    /\ stCall = [op |-> "none"]
    /\ stCalls = 0

\* no thread has a call to make on the boost-backed ring
MtIdle ==
    /\ MtInit
    /\ multiThreaded = FALSE
    /\ role = [t \in Threads |-> "any"]
    /\ ops = [t \in Threads |-> 0]
    /\ plan = ops



\* the driver is constructed and no inference was made
DrvInit ==
    /\ dpc = "idle"
    /\ dargs = [op |-> "none"]
    /\ stored = FALSE
    /\ ran = FALSE
    /\ resultState = "none"
    /\ dret = [returned |-> FALSE]
    /\ dthrown = "none"
    /\ accLog = <<>>
    /\ dcalls = 0

\* no device handler was constructed yet
DhInit ==
    /\ devWrap = [xclbin |-> "", idmas |-> <<>>, odmas |-> <<>>]
    /\ hpc = "none"
    /\ device = "none"
    /\ uuid = "none"
    /\ kernels = <<>>
    /\ inputBufferMap = <<>>
    /\ outputBufferMap = <<>>
    /\ hthrown = "none"
    /\ hcall = [op |-> "none"]
    /\ hcalls = 0

\* no datatype was queried and nothing was packed
FnIdle ==
    /\ fcall = [op |-> "none"]
    /\ fret = [returned |-> FALSE]

\* a driver constructed without defaults: the default member initializers
BdIdle ==
    /\ defaultInputDeviceIndex = 0
    /\ defaultInputKernelName = ""
    /\ defaultOutputDeviceIndex = 0
    /\ defaultOutputKernelName = ""
    /\ batchElements = 1
    /\ forceAchieval = FALSE
    /\ scall = [op |-> "none"]
    /\ rawArgs = [op |-> "none"]

\* every object but the boost-backed ring is constructed and unused
Others ==
    /\ DrvInit
    /\ DhInit
    /\ FnIdle
    /\ BdIdle
    /\ StIdle
    /\ InInit
    /\ inCallers = InThreads
    /\ OutInit
    /\ outCallers = {1}

(***************************************************************************)
(* Specification of the multi-threaded ring: any thread stores or reads.   *)
(***************************************************************************)
\* The MaxCalls calls are split among the threads in every way; the threads
\* are interchangeable, so only the splits with ops[1] >= ops[2] >= ... start.
RECURSIVE SumOps(_, _)
SumOps(f, n) == IF n = 0 THEN 0 ELSE f[n] + SumOps(f, n - 1)

Init ==
    /\ MtInit
    /\ multiThreaded = TRUE
    /\ Others
    /\ role = [t \in Threads |-> "any"]
    /\ ops \in {f \in [Threads -> 0..MaxCalls] :
                  /\ SumOps(f, NumThreads) = MaxCalls
                  /\ \A t \in Threads : t < NumThreads => f[t] >= f[t + 1]}
    /\ plan = ops

StoreStep(t) ==
    \/ StoreLock(t)
    \/ StoreInsert(t)
    \/ StoreUnlock(t)
    \/ StoreNotify(t)

ReadStep(t) ==
    \/ ReadLock(t)
    \/ ReadTimeoutReady(t)
    \/ ReadCopy(t)
    \/ ReadErase(t)
    \/ ReadUnlock(t)
    \/ ReadNotify(t)

Next ==
    \E t \in Threads :
        \/ \E k \in 1..Parts : CallStore(t, k)
        \/ CallRead(t)
        \/ StoreStep(t)
        \/ ReadStep(t)
        \/ ReadTimeoutStop(t)
        \/ RequestStop(t)
        \/ SpuriousWake(t)

Spec == Init /\ [][Next]_vars

(***************************************************************************)
(* Specification of the single-threaded ring and its properties.           *)
(***************************************************************************)
StInit ==
    /\ MtIdle
    /\ Others

StNext ==
    \/ \E k \in 1..Parts : StStore(k)
    \/ StRead

StSpec == StInit /\ [][StNext]_vars

\* C8: on the single-threaded ring a store of a whole number of parts that
\* is no longer than the capacity returns false exactly when its length
\* exceeds the free space, a read returns false exactly when fewer than
\* ElementsPerPart elements are buffered, a call that returns false leaves
\* the ring as it was, a successful store appends its data and a successful
\* read removes and returns the oldest part; no call ever waits.
C8_Backpressure ==
    /\ stCall.op = "store" =>
          /\ stCall.ok = ~(Len(stCall.data) > Capacity - Len(stCall.before))
          /\ ~stCall.ok => buffer = stCall.before
          /\ stCall.ok => buffer = stCall.before \o stCall.data
    /\ stCall.op = "read" =>
          /\ stCall.ok = ~(Len(stCall.before) < ElementsPerPart)
          /\ ~stCall.ok => buffer = stCall.before /\ stCall.outp = <<>>
          /\ stCall.ok => stCall.before = stCall.outp \o buffer
                          /\ Len(stCall.outp) = ElementsPerPart
    /\ stCalls < MaxStCalls =>
          /\ ENABLED StRead
          /\ \A k \in 1..Parts : ENABLED StStore(k)

\* a one-part store filled the ring again after a read had removed the
\* oldest part
C8_Witness ==
    /\ stCall.op = "store"
    /\ stCall.ok
    /\ Len(stCall.data) = ElementsPerPart
    /\ Len(buffer) = Capacity
    /\ stCall.before # <<>>
    /\ stCall.before[1][1] > 1

(***************************************************************************)
(* One producer thread and one consumer thread (RingBuffer<T, true>): the  *)
(* producer makes s one-part stores, the consumer r reads without a stop   *)
(* token, r <= s <= r + Parts.                                             *)
(***************************************************************************)
\* largest number of stores of the producer
MaxStores == 4

Producer == NoThread + 1
Consumer == Producer + 1

PCInit ==
    /\ MtInit
    /\ multiThreaded = TRUE
    /\ Others
    /\ role = [t \in Threads |-> IF t = Producer THEN "producer"
                                 ELSE IF t = Consumer THEN "consumer" ELSE "any"]
    /\ \E s \in 0..MaxStores : \E r \in 0..s :
          /\ s <= r + Parts
          /\ ops = [t \in Threads |-> IF t = Producer THEN s
                                      ELSE IF t = Consumer THEN r ELSE 0]
    /\ plan = ops

PCNext ==
    \E t \in Threads :
        \/ CallStore(t, 1)
        \/ CallRead(t)
        \/ StoreStep(t)
        \/ ReadStep(t)
        \/ SpuriousWake(t)

\* A thread inside store or read keeps running and gets the mutex when it
\* is released again and again (the other thread holds it only for a copy);
\* the 2000ms of a wait_for pass (its deadline is absolute, so a wake-up that
\* finds the predicate false does not postpone it); the two threads make
\* their calls.  Nothing forces a spurious wake-up.
PCFairness ==
    \A t \in {Producer, Consumer} :
        /\ WF_vars(CallStore(t, 1))
        /\ WF_vars(CallRead(t))
        /\ SF_vars(StoreStep(t))
        /\ SF_vars(ReadStep(t))
        /\ SF_vars(ReadTimeoutReady(t))

PCSpec == PCInit /\ [][PCNext]_vars /\ PCFairness

(***************************************************************************)
(* A consumer thread whose reads carry a stop token that may be requested, *)
(* and a producer thread that may or may not store a part.                 *)
(***************************************************************************)
\* largest number of reads of the consumer
MaxCancelReads == 2

CancelInit ==
    /\ MtInit
    /\ multiThreaded = TRUE
    /\ Others
    /\ role = [t \in Threads |-> IF t = Producer THEN "producer"
                                 ELSE IF t = Consumer THEN "consumer" ELSE "any"]
    /\ \E s \in 0..1 : \E r \in 1..MaxCancelReads :
          ops = [t \in Threads |-> IF t = Producer THEN s
                                   ELSE IF t = Consumer THEN r ELSE 0]
    /\ plan = ops

CancelNext ==
    \E t \in Threads :
        \/ CallStore(t, 1)
        \/ CallRead(t)
        \/ StoreStep(t)
        \/ ReadStep(t)
        \/ ReadTimeoutStop(t)
        \/ RequestStop(t)
        \/ SpuriousWake(t)

\* As PCFairness, but nothing forces a call or a stop request.
CancelFairness ==
    \A t \in {Producer, Consumer} :
        /\ SF_vars(StoreStep(t))
        /\ SF_vars(ReadStep(t))
        /\ SF_vars(ReadTimeoutReady(t))
        /\ SF_vars(ReadTimeoutStop(t))

CancelSpec == CancelInit /\ [][CancelNext]_vars /\ CancelFairness

(***************************************************************************)
(* Properties of the multi-threaded ring.                                  *)
(***************************************************************************)
\* occupancy in parts, as size() returns it
Occupancy == Len(buffer) \div ElementsPerPart

\* C1: whenever the ring is observable (readWriteMutex not held), its
\* occupancy is between 0 and Parts, equals the parts stored minus the parts
\* read, and the free space is (Parts - occupancy) * ElementsPerPart.
C1_Occupancy ==
    MutexFree =>
        /\ Len(buffer) = ElementsPerPart * (storedParts - readParts)
        /\ 0 <= Occupancy /\ Occupancy <= Parts
        /\ freeSpaceNotLocked = (Parts - Occupancy) * ElementsPerPart

\* a store had to wait for room, parts were read and parts are buffered
C1_Witness ==
    /\ MutexFree
    /\ storedParts >= 2
    /\ readParts >= 1
    /\ Occupancy >= 1
    /\ \E t \in Threads : pc[t] \in {"s_wait", "s_woken"}

\* C2: every completed read returned the ElementsPerPart elements of one
\* stored part, and no part was returned by two reads.
C2_NoTornPart ==
    /\ \A i \in 1..Len(readLog) : \E id \in storedIds : readLog[i] = PartOf(id)
    /\ \A i, j \in 1..Len(readLog) : i # j => readLog[i] # readLog[j]

\* a read has completed a part of a two-part store while another thread was
\* inside a read of its own, which is still running
C2_Witness ==
    /\ Len(readLog) >= 1
    /\ Len(buffer) >= ElementsPerPart
    /\ \E t, u \in Threads :
          /\ t # u
          /\ pc[t] = "idle" /\ ret[t] = "true" /\ out[t] = readLog[Len(readLog)]
          /\ pc[u] \in {"r_lock", "r_copy"}

AllDone == \A t \in Threads : pc[t] = "idle" /\ ops[t] = 0

\* C9: one producer, one consumer: every call eventually returns true and
\* the ring ends with s - r parts.
C9_Completes ==
    <>[](/\ AllDone
         /\ \A t \in Threads : plan[t] > 0 => ret[t] = "true"
         /\ storedParts = plan[Producer]
         /\ readParts = plan[Consumer]
         /\ Occupancy = plan[Producer] - plan[Consumer]
         /\ Len(buffer) = Occupancy * ElementsPerPart)

\* the producer found the ring full and waited, and all calls have returned
C9_Witness ==
    /\ AllDone
    /\ plan[Producer] > Parts
    /\ plan[Consumer] >= 1
    /\ Occupancy = plan[Producer] - plan[Consumer]

\* thread t is inside a read that has not reached its copy
InReadWait(t) == pc[t] \in {"r_lock", "r_wait", "r_woken"}

\* C10: a read whose token is asked to stop returns: false when it times out
\* on a ring without a whole part, which writes nothing and leaves the ring
\* as it is; true when a part became available, and then it has consumed the
\* part at the front of the ring.
C10_Cancel ==
    /\ \A t \in Threads : (InReadWait(t) /\ stoken[t]) ~> (pc[t] = "idle")
    /\ [][\A t \in Threads :
            /\ (InReadWait(t) /\ pc'[t] = "idle") =>
                  /\ ret'[t] = "false"
                  /\ stoken[t]
                  /\ ~ReadReady
                  /\ buffer' = buffer
                  /\ out'[t] = out[t]
                  /\ out[t] = <<>>
            /\ (pc[t] = "r_erase" /\ pc'[t] = "r_unlock") =>
                  /\ out[t] = SubSeq(buffer, 1, ElementsPerPart)
                  /\ buffer = out[t] \o buffer'
            /\ (pc[t] = "r_notify" /\ pc'[t] = "idle") =>
                  /\ ret'[t] = "true"
                  /\ out'[t] = out[t]
                  /\ \E id \in storedIds : out[t] = PartOf(id)
         ]_vars

\* a read was cancelled on an empty ring
C10_Witness ==
    \E t \in Threads :
        /\ pc[t] = "idle" /\ ret[t] = "false" /\ out[t] = <<>>
        /\ stoken[t] /\ buffer = <<>>

(***************************************************************************)
(* Specification of the device input buffer and its properties.            *)
(***************************************************************************)
\* store and run called from any thread
InSpecInit ==
    /\ MtIdle
    /\ Others

\* store and run called from one thread only
InSeqInit ==
    /\ MtIdle
    /\ DrvInit
    /\ DhInit
    /\ FnIdle
    /\ BdIdle
    /\ StIdle
    /\ InInit
    /\ inCallers = {1}
    /\ OutInit
    /\ outCallers = {1}

InNext ==
    \E t \in InThreads :
        \/ InCallStore(t)
        \/ InStoreScan(t)
        \/ InStoreLock(t)
        \/ InStoreWrite(t)
        \/ InCallRun(t)
        \/ InRunLock(t)
        \/ InRunScan(t)
        \/ InRunLoadLock(t)
        \/ InRunLoadCopy(t)
        \/ InRunSync(t)
        \/ InRunSubmit(t)
        \/ InRunWait(t)

InSpec == InSpecInit /\ [][InNext]_vars

InSeqSpec == InSeqInit /\ [][InNext]_vars

\* the positions of run between loadMap and the end of execute
RunSection == {"run_scan", "run_load", "run_copy", "run_sync", "run_exec", "run_wait"}

\* C3: at most one thread is between loadMap and the end of execute of
\* run() on the buffer, and at most one kernel-run is in flight.
C3_RunExclusive ==
    /\ Cardinality({t \in InThreads : ipc[t] \in RunSection}) <= 1
    /\ inflight <= 1

\* one thread waits for its kernel-run while another has called run()
C3_Witness ==
    \E t, u \in InThreads :
        /\ ipc[t] = "run_wait"
        /\ ipc[u] = "run_lock"
        /\ inflight = 1

\* C4 as claimed: the k-th kernel-run is shown the k-th stored part.
C4_InputFifo ==
    \A k \in 1..Len(kernelLog) :
        /\ k <= Len(storeLog)
        /\ kernelLog[k] = storeLog[k]

\* C5 as claimed: run finds a part (and goes on to return true) iff a stored
\* part exists that no earlier run has loaded; otherwise it returns false
\* with the map, the device memory and the kernel untouched.
C5_RunIffPart ==
    [][\A t \in InThreads :
          (ipc[t] = "run_scan" /\ ipc'[t] # "run_scan") =>
              IF Len(storeLog) - loads > 0
                THEN ipc'[t] = "run_load"
                ELSE /\ ipc'[t] = "idle"
                     /\ iret'[t] = "false"
                     /\ inMap' = inMap
                     /\ inDevice' = inDevice
                     /\ kernelLog' = kernelLog
      ]_vars

(***************************************************************************)
(* Specification of the device output buffer and its properties.           *)
(***************************************************************************)
\* the methods of the buffer called from one thread only
OutSpecInit ==
    /\ MtIdle
    /\ Others

OutNext ==
    \E t \in OutThreads :
        \/ \E n \in 1..MaxSamples : OutCallRead(t, n)
        \/ OutExecute(t)
        \/ OutSync(t)
        \/ OutSaveMap(t)
        \/ OutIsFull(t)
        \/ OutCallArchive(t)
        \/ OutArchiveStep(t)
        \/ OutArchiveEnd(t)
        \/ OutArchiveReturn(t)
        \/ OutRetrieveArchive(t)
        \/ OutClearArchive(t)

OutSpec == OutSpecInit /\ [][OutNext]_vars

\* C6 as claimed: after read calls only, the archive followed by the parts
\* buffered in the ring is the sequence of the maps produced, and the ring
\* is not left full.
C6_ReadConservation ==
    ((\A t \in OutThreads : opc[t] = "idle") /\ outOps \subseteq {"read"}) =>
        /\ longTermStorage \o Buffered(outRing) = produced
        /\ ~isFull(outRing)

\* C7 as claimed: archiveValidBufferParts appends exactly the parts that
\* were buffered, in stored order, and leaves no part valid.
C7_ArchiveDrains ==
    \A t \in OutThreads :
        opc[t] = "archived" =>
            /\ longTermStorage = archAt[t].archive \o archAt[t].buffered
            /\ countValidParts(outRing) = 0

(***************************************************************************)
(* Argument checks of RingBuffer<T, multiThreaded>::store.                 *)
(***************************************************************************)
\* FinnUtils::logAndError<E>(msg): logs msg and raises an error of type E
logAndError(E) == E

\* fault injection for C11: a store that does not compare its length with
\* the capacity
StoreArgErrorNoCapacity(datasize) ==
    IF datasize % ElementsPerPart # 0 THEN logAndError("runtime_error") ELSE "none"

\* the two checks at the head of store, made before `if constexpr (multiThreaded)`:
\* the error raised for a store of datasize elements, "none" when it passes
StoreArgError(datasize) ==
    IF datasize % ElementsPerPart # 0 THEN logAndError("runtime_error")
    ELSE IF datasize > Capacity THEN logAndError("runtime_error")
    ELSE "none"

\* the longest store tried
MaxLen == Capacity + ElementsPerPart

\* len elements of data, the first of the part with identity id
DataOf(id, len) ==
    [i \in 1..len |-> <<id + ((i - 1) \div ElementsPerPart), ((i - 1) % ElementsPerPart) + 1>>]

\* a thread calls store(first, last) with len elements on the multi-threaded
\* ring: the call raises the error of the argument checks or goes on to lock
CallStoreLen(t, len) ==
    /\ multiThreaded
    /\ IF StoreArgError(len) # "none"
         THEN /\ pc[t] = "idle"
              /\ ops[t] > 0
              /\ role[t] = "any"
              /\ ops' = [ops EXCEPT ![t] = @ - 1]
              /\ arg' = [arg EXCEPT ![t] = DataOf(nextId, len)]
              /\ ret' = [ret EXCEPT ![t] = StoreArgError(len)]
              /\ UNCHANGED <<buffer, readWriteMutex, waiting, pc, pos, out, stoken,
                             role, nextId, storedParts, readParts, storedIds, readLog>>
              /\ UNCHANGED nonMt
         ELSE CallStore(t, len \div ElementsPerPart)

\* store(first, last) with len elements on the single-threaded ring
StStoreLen(len) ==
    /\ ~multiThreaded
    /\ IF StoreArgError(len) # "none"
         THEN /\ stCalls < MaxStCalls
              /\ stCalls' = stCalls + 1
              /\ stCall' = [op |-> "store", data |-> DataOf(nextId, len),
                            before |-> buffer, thrown |-> StoreArgError(len)]
              /\ UNCHANGED <<buffer, nextId>>
              /\ UNCHANGED nonSt
         ELSE StStore(len \div ElementsPerPart)

\* read(outputIt) on the single-threaded ring
StReadOnly ==
    /\ ~multiThreaded
    /\ StRead

\* the ring is instantiated in either variant
ArgInit ==
    /\ MtInit
    /\ Others
    /\ role = [t \in Threads |-> "any"]
    /\ multiThreaded \in BOOLEAN
    /\ ops \in {f \in [Threads -> 0..MaxCalls] :
                  /\ SumOps(f, NumThreads) = (IF multiThreaded THEN MaxCalls ELSE 0)
                  /\ \A t \in Threads : t < NumThreads => f[t] >= f[t + 1]}
    /\ plan = ops

ArgNext ==
    \/ \E t \in Threads :
          \/ \E len \in 1..MaxLen : CallStoreLen(t, len)
          \/ CallRead(t)
          \/ StoreStep(t)
          \/ ReadStep(t)
          \/ SpuriousWake(t)
    \/ \E len \in 1..MaxLen : StStoreLen(len)
    \/ StReadOnly

ArgSpec == ArgInit /\ [][ArgNext]_vars

\* the length of a store is not a whole number of parts or exceeds the capacity
BadLength(n) == n % ElementsPerPart # 0 \/ n > Capacity

\* C11: in both variants of the ring a store whose length is not a multiple
\* of ElementsPerPart, or is greater than the capacity, raises an error and
\* leaves the ring, its mutex and its waiters as they were; every other
\* store goes on (to the lock, or to its result).
C11_StoreArgErrors ==
    [][/\ \A t \in Threads :
            (ops'[t] = ops[t] - 1 /\ pc'[t] # "r_lock") =>
                IF BadLength(Len(arg'[t]))
                  THEN /\ ret'[t] = "runtime_error"
                       /\ pc'[t] = "idle"
                       /\ buffer' = buffer
                       /\ readWriteMutex' = readWriteMutex
                       /\ waiting' = waiting
                  ELSE /\ ret'[t] = "none"
                       /\ pc'[t] = "s_lock"
       /\ (stCalls' = stCalls + 1 /\ stCall'.op = "store") =>
                IF BadLength(Len(stCall'.data))
                  THEN /\ "thrown" \in DOMAIN stCall'
                       /\ stCall'.thrown = "runtime_error"
                       /\ buffer' = buffer
                  ELSE "ok" \in DOMAIN stCall'
      ]_vars

\* a store longer than the capacity raised its error on a ring that holds
\* data while another thread was inside a call
C11_Witness ==
    \E t, u \in Threads :
        /\ ret[t] = "runtime_error"
        /\ Len(arg[t]) > Capacity
        /\ Len(arg[t]) % ElementsPerPart = 0
        /\ buffer # <<>>
        /\ pc[u] # "idle"

(***************************************************************************)
(* Stores and runs on one device input buffer.                             *)
(***************************************************************************)
\* the positions of a thread inside DeviceInputBuffer::store
StoreSection == {"st_scan", "st_lock", "st_write"}

\* C12 as claimed: no thread is inside store while another is between
\* loadMap and the end of execute of run() on the same buffer.
C12_StoreRunExclusive ==
    \A t, u \in InThreads :
        ~(ipc[t] \in StoreSection /\ ipc[u] \in RunSection)

\* C12 as amended: the write of a store into the ring and the ring-drain
\* copy of a run never overlap, and no two stores write at the same time
\* (each holds headPartMutex); runs exclude each other under runMutex.
C12_WriteExcludesDrain ==
    /\ Cardinality({t \in InThreads : ipc[t] \in {"st_write", "run_copy"}}) <= 1
    /\ Cardinality({t \in InThreads : ipc[t] \in RunSection}) <= 1
    /\ \A t \in InThreads :
          ipc[t] \in {"st_write", "run_copy"} =>
              headPartMutex = t /\ partMutexes[islot[t]] = t

\* a store writes into the ring while the kernel-run of another thread's
\* run() is in flight
C12_Witness ==
    \E t, u \in InThreads :
        /\ ipc[t] = "st_write"
        /\ ipc[u] = "run_wait"
        /\ inflight = 1

(***************************************************************************)
(* The device output buffer used by several threads.                       *)
(***************************************************************************)
\* the methods of the buffer called from any thread.  Two calls that run at
\* the same time race on map, ringBuffer and longTermStorage; the model
\* interleaves them at the granularity of the methods read calls.
OutMtInit ==
    /\ MtIdle
    /\ DrvInit
    /\ DhInit
    /\ FnIdle
    /\ BdIdle
    /\ StIdle
    /\ InInit
    /\ inCallers = InThreads
    /\ OutInit
    /\ outCallers = OutThreads

OutMtSpec == OutMtInit /\ [][OutNext]_vars

\* the positions of a thread that has started the kernel-run of an iteration
\* of read, or an archive-drain, and has not finished it
IterationSection == {"sync", "save", "full", "archive", "archived"}

\* C13 as claimed: the steps of one iteration of read (or of an
\* archive-drain) are never interleaved with those of another on the same
\* buffer: at most one thread is inside an iteration.
C13_IterationsAtomic ==
    Cardinality({t \in OutThreads : opc[t] \in IterationSection}) <= 1

(***************************************************************************)
(* The archive of the device output buffer.                                *)
(***************************************************************************)
\* sequence a is an initial part of sequence b
IsPrefix(a, b) == Len(a) <= Len(b) /\ a = SubSeq(b, 1, Len(a))

\* C14: every step of read, archiveValidBufferParts and retrieveArchive
\* keeps the entries of the archive, in their order (it may append);
\* retrieveArchive returns the archive and changes nothing; clearArchive
\* removes every entry and leaves the ring as it is.
C14_ArchiveRetention ==
    [][IF ocalls' = ocalls + 1 /\ olast' = "clear"
         THEN /\ longTermStorage' = <<>>
              /\ outRing' = outRing
              /\ outMap' = outMap
         ELSE /\ IsPrefix(longTermStorage, longTermStorage')
              /\ (ocalls' = ocalls + 1 /\ olast' = "retrieve") =>
                    /\ longTermStorage' = longTermStorage
                    /\ outRing' = outRing
                    /\ outMap' = outMap
                    /\ \E t \in OutThreads : oret'[t] = longTermStorage
      ]_vars

\* clearArchive emptied an archive that retrieveArchive had returned with
\* entries, while the ring holds buffered parts
C14_Witness ==
    /\ olast = "clear"
    /\ longTermStorage = <<>>
    /\ countValidParts(outRing) > 0
    /\ \E t \in OutThreads : oret[t] # <<>>

(***************************************************************************)
(* BaseDriver::inferRaw over the accelerator.                              *)
(***************************************************************************)
\* number of inferRaw calls made on the driver
MaxInferCalls == 2

\* the values of ert_cmd_state that a read of the output buffer can return
ErtCmdStates ==
    {"ERT_CMD_STATE_NEW", "ERT_CMD_STATE_QUEUED", "ERT_CMD_STATE_RUNNING",
     "ERT_CMD_STATE_COMPLETED", "ERT_CMD_STATE_ERROR", "ERT_CMD_STATE_ABORT",
     "ERT_CMD_STATE_SUBMITTED", "ERT_CMD_STATE_TIMEOUT",
     "ERT_CMD_STATE_NORESPONSE"}

\* the archives retrieveResults can return: the ids of the archived elements
Archives == {<<>>, <<1>>, <<1, 2>>}

\* a call on the accelerator returns a value of V or leaves with an error of
\* its own (an unknown device or kernel name, an error of the buffer)
Outcomes(V) == {[raised |-> TRUE]} \cup {[raised |-> FALSE, value |-> v] : v \in V}

StateAcceptedOnlyCompleted(s) == s = "ERT_CMD_STATE_COMPLETED"

\* the test inferRaw makes on resultState
StateAccepted(s) ==
    \/ s = "ERT_CMD_STATE_COMPLETED"
    \/ s = "ERT_CMD_STATE_TIMEOUT"
    \/ s = "ERT_CMD_STATE_NEW"

\* inferRaw is entered and obtains the store function of the input buffer
InferRawCall(samples, forceArchival) ==
    /\ dpc = "idle"
    /\ dcalls < MaxInferCalls
    /\ dcalls' = dcalls + 1
    /\ dargs' = [op |-> "inferRaw", samples |-> samples,
                 forceArchival |-> forceArchival]
    /\ accLog' = <<[op |-> "storeFactory", result |-> [raised |-> FALSE, value |-> "storeFunc"]]>>
    /\ stored' = FALSE
    /\ ran' = FALSE
    /\ resultState' = "none"
    /\ dret' = [returned |-> FALSE]
    /\ dthrown' = "none"
    /\ dpc' = "store"
    /\ UNCHANGED nonDrv

\* bool stored = storeFunc(first, last)
InferStore(r) ==
    /\ dpc = "store"
    /\ accLog' = Append(accLog, [op |-> "store", result |-> r])
    /\ IF r.raised
          THEN /\ dthrown' = "propagated"
               /\ dpc' = "idle"
               /\ UNCHANGED stored
          ELSE /\ stored' = r.value
               /\ dpc' = "run"
               /\ UNCHANGED dthrown
    /\ UNCHANGED <<dargs, ran, resultState, dret, dcalls, nonDrv>>

InferRunEither(r) ==
    /\ dpc = "run"
    /\ accLog' = Append(accLog, [op |-> "run", result |-> r])
    /\ IF r.raised
          THEN /\ dthrown' = "propagated"
               /\ dpc' = "idle"
               /\ UNCHANGED ran
          ELSE /\ ran' = r.value
               /\ IF stored \/ r.value
                     THEN /\ dpc' = "read"
                          /\ UNCHANGED dthrown
                     ELSE /\ dthrown' = logAndError("runtime_error")
                          /\ dpc' = "idle"
    /\ UNCHANGED <<dargs, stored, resultState, dret, dcalls, nonDrv>>

\* bool ran = accelerator.run(...), then the test of stored && ran
InferRun(r) ==
    /\ dpc = "run"
    /\ accLog' = Append(accLog, [op |-> "run", result |-> r])
    /\ IF r.raised
          THEN /\ dthrown' = "propagated"
               /\ dpc' = "idle"
               /\ UNCHANGED ran
          ELSE /\ ran' = r.value
               /\ IF stored /\ r.value
                     THEN /\ dpc' = "read"
                          /\ UNCHANGED dthrown
                     ELSE /\ dthrown' = logAndError("runtime_error")
                          /\ dpc' = "idle"
    /\ UNCHANGED <<dargs, stored, resultState, dret, dcalls, nonDrv>>

\* resultState = accelerator.read(...), then the test of resultState
InferRead(s) ==
    /\ dpc = "read"
    /\ accLog' = Append(accLog, [op |-> "read", result |-> s])
    /\ IF s.raised
          THEN /\ dthrown' = "propagated"
               /\ dpc' = "idle"
               /\ UNCHANGED resultState
          ELSE /\ resultState' = s.value
               /\ IF StateAccepted(s.value)
                     THEN /\ dpc' = "retrieve"
                          /\ UNCHANGED dthrown
                     ELSE /\ dthrown' = logAndError("runtime_error")
                          /\ dpc' = "idle"
    /\ UNCHANGED <<dargs, stored, ran, dret, dcalls, nonDrv>>

\* return accelerator.retrieveResults(..., forceArchival)
InferRetrieve(a) ==
    /\ dpc = "retrieve"
    /\ accLog' = Append(accLog, [op |-> "retrieveResults",
                                 forceArchival |-> dargs.forceArchival,
                                 result |-> a])
    /\ IF a.raised
          THEN /\ dthrown' = "propagated"
               /\ UNCHANGED dret
          ELSE /\ dret' = [returned |-> TRUE, value |-> a.value]
               /\ UNCHANGED dthrown
    /\ dpc' = "idle"
    /\ UNCHANGED <<dargs, stored, ran, resultState, dcalls, nonDrv>>

DrvNext ==
    \/ \E n \in 1..MaxSamples, f \in BOOLEAN : InferRawCall(n, f)
    \/ \E r \in Outcomes(BOOLEAN) : InferStore(r)
    \/ \E r \in Outcomes(BOOLEAN) : InferRun(r)
    \/ \E s \in Outcomes(ErtCmdStates) : InferRead(s)
    \/ \E a \in Outcomes(Archives) : InferRetrieve(a)

\* every object is constructed and unused, no device handler exists yet
ExtInit ==
    /\ MtIdle
    /\ Others

DrvSpec == ExtInit /\ [][DrvNext]_vars

\* C15: an inferRaw whose store and run both returned true and whose read
\* returned a state has, once it is over, returned what retrieveResults
\* returned exactly when the state is COMPLETED, TIMEOUT or NEW; for any
\* other state it left with a runtime error, returned no data and did not
\* call retrieveResults.
C15_TerminalState ==
    (dpc = "idle" /\ dcalls > 0 /\ stored /\ ran /\ resultState \in ErtCmdStates) =>
        IF resultState \in {"ERT_CMD_STATE_COMPLETED", "ERT_CMD_STATE_TIMEOUT",
                            "ERT_CMD_STATE_NEW"}
           THEN /\ accLog[Len(accLog)].op = "retrieveResults"
                /\ dthrown # "runtime_error"
                /\ ~accLog[Len(accLog)].result.raised =>
                      /\ dret = [returned |-> TRUE, value |-> accLog[Len(accLog)].result.value]
                      /\ dthrown = "none"
           ELSE /\ accLog[Len(accLog)].op = "read"
                /\ dthrown = "runtime_error"
                /\ dret = [returned |-> FALSE]

\* one inferRaw returned an archive after a read that timed out, and the
\* next one left with the error after a read that reported ERROR
C15_Witness ==
    /\ dpc = "idle"
    /\ dcalls = 2
    /\ stored /\ ran
    /\ resultState = "ERT_CMD_STATE_ERROR"
    /\ dthrown = "runtime_error"
    /\ dret = [returned |-> FALSE]

(***************************************************************************)
(* DeviceHandler: construction from a DeviceWrapper and dispatch by name.  *)
(***************************************************************************)
\* longest list of input (or output) descriptors of a wrapper
MaxDescs == 2
\* number of dispatch calls made on a constructed handler
MaxHCalls == 2

\* the buffer descriptors a wrapper may hold: three well-formed ones (two
\* of them share a kernel name), one with an empty kernel name and one with
\* an empty packed shape
Descriptors ==
    {[kernelName |-> "idma0", packedShape |-> <<120>>],
     [kernelName |-> "odma0", packedShape |-> <<2, 2048>>],
     [kernelName |-> "odma0", packedShape |-> <<120>>],
     [kernelName |-> "", packedShape |-> <<120>>],
     [kernelName |-> "idma0", packedShape |-> <<>>]}

\* the wrappers given to the constructor; the path of the bitstream is
\* empty, names nothing, names a directory or names a regular file
Wrappers ==
    [xclbin : {"", "missing.xclbin", "directory", "finn-accel.xclbin"},
     idmas : UNION {[1..k -> Descriptors] : k \in 0..MaxDescs},
     odmas : UNION {[1..k -> Descriptors] : k \in 0..MaxDescs}]

\* the kernel names dispatch calls are made with; "dma9" is never configured
DispatchNames == {"idma0", "odma0", "dma9"}

\* FinnUtils::shapeToElements: the product of the dimensions, 0 for no dimension
shapeToElements(shape) ==
    LET RECURSIVE product(_)
        product(s) == IF s = <<>> THEN 1 ELSE Head(s) * product(Tail(s))
    IN  IF shape = <<>> THEN 0 ELSE product(shape)

\* FinnUtils::getActualBufferSize: the requested size rounded up to the
\* allocation unit of the device: 4096, doubled until the request fits
getActualBufferSize(requested) ==
    LET RECURSIVE grow(_)
        grow(unit) == IF unit >= requested THEN unit ELSE grow(2 * unit)
    IN  grow(4096)

\* the members a device buffer gets from its packed shape, and the size
\* its ring reports as ELEMENTS_PER_PART
DeviceBuffer(pShapePacked) ==
    LET mapSize == getActualBufferSize(shapeToElements(pShapePacked))
    IN  [shapePacked |-> pShapePacked,
         mapSize |-> mapSize,
         elementsPerPart |-> mapSize]

checkDeviceWrapperInputsOnly(w) ==
    IF w.xclbin # "finn-accel.xclbin" THEN "filesystem_error"
    ELSE IF w.idmas = <<>> THEN "invalid_argument"
    ELSE IF \E i \in DOMAIN w.idmas :
                w.idmas[i].kernelName = "" \/ w.idmas[i].packedShape = <<>>
         THEN "invalid_argument"
    ELSE "none"

\* the error checkDeviceWrapper leaves with, "none" when it returns
checkDeviceWrapper(w) ==
    LET exists == w.xclbin \in {"directory", "finn-accel.xclbin"}
        is_regular_file == w.xclbin = "finn-accel.xclbin"
        flawed(descs) == \E i \in DOMAIN descs :
                            \/ descs[i].kernelName = ""
                            \/ descs[i].packedShape = <<>>
    IN  IF w.xclbin = "" THEN "filesystem_error"
        ELSE IF ~exists \/ ~is_regular_file THEN "filesystem_error"
        ELSE IF w.idmas = <<>> THEN "invalid_argument"
        ELSE IF flawed(w.idmas) THEN "invalid_argument"
        ELSE IF w.odmas = <<>> THEN "invalid_argument"
        ELSE IF flawed(w.odmas) THEN "invalid_argument"
        ELSE "none"

\* DeviceHandler::DeviceHandler up to the return of checkDeviceWrapper
Construct(w) ==
    /\ hpc = "none"
    /\ devWrap' = w
    /\ hthrown' = checkDeviceWrapper(w)
    /\ hpc' = IF checkDeviceWrapper(w) = "none" THEN "checked" ELSE "failed"
    /\ UNCHANGED <<device, uuid, kernels, inputBufferMap, outputBufferMap,
                   hcall, hcalls, nonDh>>

initializeDevice ==
    /\ hpc = "checked"
    /\ device' = "open"
    /\ hpc' = "device"
    /\ UNCHANGED <<devWrap, uuid, kernels, inputBufferMap, outputBufferMap,
                   hthrown, hcall, hcalls, nonDh>>

loadXclbinSetUUID ==
    /\ hpc = "device"
    /\ uuid' = devWrap.xclbin
    /\ hpc' = "loaded"
    /\ UNCHANGED <<devWrap, device, kernels, inputBufferMap, outputBufferMap,
                   hthrown, hcall, hcalls, nonDh>>

\* map.emplace for each descriptor in turn: a key the map holds is kept
RECURSIVE emplaceAll(_, _)
emplaceAll(map, descs) ==
    IF descs = <<>>
       THEN map
       ELSE emplaceAll(map @@ (Head(descs).kernelName :>
                                  DeviceBuffer(Head(descs).packedShape)),
                       Tail(descs))

initializeBufferObjects ==
    /\ hpc = "loaded"
    /\ kernels' = [i \in DOMAIN devWrap.idmas |->
                      <<devWrap.idmas[i].kernelName, "shared">>]
                  \o [i \in DOMAIN devWrap.odmas |->
                      <<devWrap.odmas[i].kernelName, "exclusive">>]
    /\ inputBufferMap' = emplaceAll(inputBufferMap, devWrap.idmas)
    /\ outputBufferMap' = emplaceAll(outputBufferMap, devWrap.odmas)
    /\ hpc' = "ready"
    /\ UNCHANGED <<devWrap, device, uuid, hthrown, hcall, hcalls, nonDh>>

containsBufferInputOnly(kernelBufferName, ioMode) ==
    kernelBufferName \in DOMAIN inputBufferMap

containsBuffer(kernelBufferName, ioMode) ==
    IF ioMode = "INPUT" THEN kernelBufferName \in DOMAIN inputBufferMap
    ELSE IF ioMode = "OUTPUT" THEN kernelBufferName \in DOMAIN outputBufferMap
    ELSE FALSE

\* the outcome of a dispatch call made with a name its map does not hold:
\* the text given to logAndError; existingNames is the text it was
\* initialised with, because the value of std::accumulate is not used
UnknownName(op, name) ==
    LET existingNames == <<"Existing buffer names:">>
    IN  [op |-> op, name |-> name, raised |-> TRUE,
         error |-> logAndError("runtime_error"),
         message |-> <<"Tried accessing kernel/buffer with name ", name,
                       " but this kernel / buffer does not exist! ">>
                     \o existingNames,
         forwarded |-> <<>>]

\* a dispatch call ends with outcome o
Dispatched(o) ==
    /\ hpc = "ready"
    /\ hcalls < MaxHCalls
    /\ hcalls' = hcalls + 1
    /\ hcall' = o
    /\ UNCHANGED <<devWrap, hpc, device, uuid, kernels, inputBufferMap,
                   outputBufferMap, hthrown, nonDh>>

DeviceHandler_store(name) ==
    Dispatched(IF name \notin DOMAIN inputBufferMap
                  THEN UnknownName("store", name)
                  ELSE [op |-> "store", name |-> name, raised |-> FALSE,
                        forwarded |-> <<"store">>])

DeviceHandler_run(name) ==
    Dispatched(IF name \notin DOMAIN inputBufferMap
                  THEN UnknownName("run", name)
                  ELSE [op |-> "run", name |-> name, raised |-> FALSE,
                        forwarded |-> <<"run">>])

DeviceHandler_retrieveResults(name, forceArchival) ==
    Dispatched(IF name \notin DOMAIN outputBufferMap
                  THEN UnknownName("retrieveResults", name)
                  ELSE [op |-> "retrieveResults", name |-> name, raised |-> FALSE,
                        forwarded |-> IF forceArchival
                                         THEN <<"archiveValidBufferParts",
                                                "retrieveArchive">>
                                         ELSE <<"retrieveArchive">>])

DeviceHandler_read(name) ==
    Dispatched(IF name \notin DOMAIN outputBufferMap
                  THEN UnknownName("read", name)
                  ELSE [op |-> "read", name |-> name, raised |-> FALSE,
                        forwarded |-> <<"read">>])

\* size(SIZE_SPECIFIER::ELEMENTS_PER_PART, bufferName)
DeviceHandler_size(name) ==
    Dispatched(IF name \in DOMAIN inputBufferMap
                  THEN [op |-> "size", name |-> name, raised |-> FALSE,
                        value |-> inputBufferMap[name].elementsPerPart,
                        forwarded |-> <<"size">>]
                  ELSE IF name \in DOMAIN outputBufferMap
                  THEN [op |-> "size", name |-> name, raised |-> FALSE,
                        value |-> outputBufferMap[name].elementsPerPart,
                        forwarded |-> <<"size">>]
                  ELSE [op |-> "size", name |-> name, raised |-> FALSE,
                        value |-> 0, forwarded |-> <<>>])

DhNext ==
    \/ hpc = "none" /\ \E w \in Wrappers : Construct(w)
    \/ initializeDevice
    \/ loadXclbinSetUUID
    \/ initializeBufferObjects
    \/ \E name \in DispatchNames :
          \/ DeviceHandler_store(name)
          \/ DeviceHandler_run(name)
          \/ \E forceArchival \in BOOLEAN :
                DeviceHandler_retrieveResults(name, forceArchival)
          \/ DeviceHandler_read(name)
          \/ DeviceHandler_size(name)

DhSpec == ExtInit /\ [][DhNext]_vars

\* C16: a handler constructed from a wrapper with an empty path, a path
\* that names no regular file, an empty input or output list, or a
\* descriptor with an empty kernel name or an empty packed shape has left
\* the constructor with an error, and then no device is open, no bitstream
\* is loaded and no kernel and no buffer exists.
C16_ValidationFirst ==
    (/\ hpc # "none"
     /\ \/ devWrap.xclbin # "finn-accel.xclbin"
        \/ devWrap.idmas = <<>>
        \/ devWrap.odmas = <<>>
        \/ \E d \in {devWrap.idmas[i] : i \in DOMAIN devWrap.idmas}
                  \cup {devWrap.odmas[i] : i \in DOMAIN devWrap.odmas} :
              d.kernelName = "" \/ d.packedShape = <<>>)
    => /\ hpc = "failed"
       /\ hthrown \in {"filesystem_error", "invalid_argument"}
       /\ device = "none"
       /\ uuid = "none"
       /\ kernels = <<>>
       /\ DOMAIN inputBufferMap = {}
       /\ DOMAIN outputBufferMap = {}

\* the constructor refused a wrapper whose only flaw is an output
\* descriptor with an empty packed shape
C16_Witness ==
    /\ hpc = "failed"
    /\ hthrown = "invalid_argument"
    /\ devWrap.xclbin = "finn-accel.xclbin"
    /\ devWrap.idmas = <<[kernelName |-> "idma0", packedShape |-> <<120>>]>>
    /\ devWrap.odmas = <<[kernelName |-> "odma0", packedShape |-> <<2, 2048>>],
                         [kernelName |-> "idma0", packedShape |-> <<>>]>>
    /\ device = "none"

\* C17 as claimed: a dispatch call made with a name that is not a buffer of
\* the direction the operation addresses (for size: of either direction)
\* has raised an error and has called no method of any buffer.
C17_UnknownNameRaises ==
    (\/ /\ hcall.op \in {"store", "run"}
        /\ hcall.name \notin DOMAIN inputBufferMap
     \/ /\ hcall.op \in {"read", "retrieveResults"}
        /\ hcall.name \notin DOMAIN outputBufferMap
     \/ /\ hcall.op = "size"
        /\ hcall.name \notin DOMAIN inputBufferMap \cup DOMAIN outputBufferMap)
    => /\ hcall.raised
       /\ hcall.forwarded = <<>>

\* C18 as claimed: the error raised for an unknown name names the offending
\* name and every key of the map the operation addresses: the input buffer
\* map for store and run, the output buffer map for read and
\* retrieveResults.
C18_ErrorListsNames ==
    (hcall.op \in {"store", "run", "read", "retrieveResults"} /\ hcall.raised) =>
        LET said == {hcall.message[i] : i \in DOMAIN hcall.message}
        IN  /\ hcall.name \in said
            /\ IF hcall.op \in {"store", "run"}
                  THEN DOMAIN inputBufferMap \subseteq said
                  ELSE DOMAIN outputBufferMap \subseteq said

\* C19: once the constructor has returned, containsBuffer is true of the
\* kernel name of every input descriptor for INPUT and of every output
\* descriptor for OUTPUT, also when descriptors share a kernel name.
C19_ContainsEveryDescriptor ==
    hpc = "ready" =>
        /\ \A i \in DOMAIN devWrap.idmas :
              containsBuffer(devWrap.idmas[i].kernelName, "INPUT")
        /\ \A i \in DOMAIN devWrap.odmas :
              containsBuffer(devWrap.odmas[i].kernelName, "OUTPUT")

\* a handler was constructed from two output descriptors that share a
\* kernel name but not a shape; the map holds the buffer of the first
C19_Witness ==
    /\ hpc = "ready"
    /\ devWrap.idmas = <<[kernelName |-> "idma0", packedShape |-> <<120>>]>>
    /\ devWrap.odmas = <<[kernelName |-> "odma0", packedShape |-> <<2, 2048>>],
                         [kernelName |-> "odma0", packedShape |-> <<120>>]>>
    /\ DOMAIN outputBufferMap = {"odma0"}
    /\ outputBufferMap["odma0"].shapePacked = <<2, 2048>>
    /\ containsBuffer("odma0", "OUTPUT")
    /\ ~containsBuffer("odma0", "INPUT")

\* C20 as claimed: size(ELEMENTS_PER_PART) of a configured buffer is the
\* number of elements of the buffer's packed shape, the product of its
\* dimensions.
C20_PartSizeIsElementCount ==
    (hcall.op = "size" /\ hcall.forwarded # <<>>) =>
        LET buf == IF hcall.name \in DOMAIN inputBufferMap
                      THEN inputBufferMap[hcall.name]
                      ELSE outputBufferMap[hcall.name]
        IN  hcall.value = shapeToElements(buf.shapePacked)

(***************************************************************************)
(* BaseDriver::inferRaw over one device input buffer and one device        *)
(* output buffer.                                                          *)
(***************************************************************************)
\* Each call inferRaw makes on the accelerator runs the method of the
\* buffer it is dispatched to, step by step, and inferRaw goes on with what
\* the method returned: store and run of the input buffer, read and
\* retrieveResults (archiveValidBufferParts when forced, retrieveArchive) of
\* the output buffer.  The state the kernel-run of read ends in is the
\* device's choice.  The outcome of run and of read is logged with the
\* number of calls the output buffer had received by then.
LoopNext ==
    \/ \E n \in 1..MaxSamples, f \in BOOLEAN : InferRawCall(n, f)
    \/ dpc = "store" /\ icalls = 2 * dcalls - 2 /\ InCallStore(1)
    \/ InStoreScan(1)
    \/ InStoreLock(1)
    \/ InStoreWrite(1)
    \/ /\ dpc = "store" /\ icalls = 2 * dcalls - 1 /\ ipc[1] = "idle"
       /\ InferStore([raised |-> FALSE, value |-> iret[1] = "true"])
    \/ dpc = "run" /\ icalls = 2 * dcalls - 1 /\ InCallRun(1)
    \/ InRunLock(1)
    \/ InRunScan(1)
    \/ InRunLoadLock(1)
    \/ InRunLoadCopy(1)
    \/ InRunSync(1)
    \/ InRunSubmit(1)
    \/ InRunWait(1)
    \/ /\ dpc = "run" /\ icalls = 2 * dcalls /\ ipc[1] = "idle"
       /\ InferRun([raised |-> FALSE, value |-> iret[1] = "true",
                    ocalls |-> ocalls])
    \/ /\ dpc = "read" /\ ocalls = accLog[Len(accLog)].result.ocalls
       /\ OutCallRead(1, dargs.samples)
    \/ OutExecute(1)
    \/ OutSync(1)
    \/ OutSaveMap(1)
    \/ OutIsFull(1)
    \/ OutArchiveStep(1)
    \/ OutArchiveEnd(1)
    \/ OutArchiveReturn(1)
    \/ /\ dpc = "read" /\ ocalls = accLog[Len(accLog)].result.ocalls + 1
       /\ opc[1] = "idle"
       /\ \E s \in ErtCmdStates :
             InferRead([raised |-> FALSE, value |-> s, ocalls |-> ocalls])
    \/ /\ dpc = "retrieve" /\ dargs.forceArchival
       /\ ocalls = accLog[Len(accLog)].result.ocalls
       /\ OutCallArchive(1)
    \/ /\ dpc = "retrieve"
       /\ ocalls = accLog[Len(accLog)].result.ocalls
                      + (IF dargs.forceArchival THEN 1 ELSE 0)
       /\ OutRetrieveArchive(1)
    \/ /\ dpc = "retrieve" /\ opc[1] = "idle"
       /\ ocalls = accLog[Len(accLog)].result.ocalls
                      + (IF dargs.forceArchival THEN 2 ELSE 1)
       /\ InferRetrieve([raised |-> FALSE, value |-> oret[1]])

LoopSpec == InSeqInit /\ [][LoopNext]_vars

\* C21 as claimed: the first inferRaw on a new driver, made with one part
\* of data, samples = 1 and forceArchival = true, has, once it returned,
\* left the map and the device side of the input buffer equal to the data
\* and returned as first part what the map of the output buffer held
\* after the sync.
C21_Loopback ==
    (/\ dcalls = 1
     /\ dpc = "idle"
     /\ dargs.samples = 1
     /\ dargs.forceArchival
     /\ dret.returned)
    => /\ inMap = storeLog[1]
       /\ inDevice = storeLog[1]
       /\ dret.value # <<>>
       /\ dret.value[1] = produced[1]

\* C22 as claimed: while inferRaw retrieves the results, without
\* forceArchival no step changes the output ring or the archive; the value
\* returned is the archive; and with forceArchival the ring holds no valid
\* part at the return and the archive is the archive from before the
\* archival followed by the parts the ring had buffered.
C22_ForceArchive ==
    [][dpc = "retrieve" =>
          /\ ~dargs.forceArchival =>
                /\ outRing' = outRing
                /\ longTermStorage' = longTermStorage
          /\ dpc' = "idle" =>
                /\ dret'.value = longTermStorage
                /\ dargs.forceArchival =>
                      /\ countValidParts(outRing) = 0
                      /\ longTermStorage =
                            archAt[1].archive \o archAt[1].buffered
      ]_vars

\* ---------------------------------------------------------------------
\* The valid-flag ring on its own: store is RingBuffer::store (InStoreScan,
\* InStoreLock, InStoreWrite) and the loadMap of run is RingBuffer::read
\* (InRunScan, InRunLoadLock, InRunLoadCopy), called from one thread.
\* ---------------------------------------------------------------------

\* C23 as claimed: a store returns false exactly when all parts of the ring
\* are valid and succeeds otherwise; a successful read marks the part it
\* returned invalid, so countValidParts decreases by one (and a following
\* store finds a free part).
C23_Refill ==
    [][ /\ (ipc[1] = "st_scan" /\ ipc'[1] # "st_scan")
            => ((ipc'[1] = "idle" /\ iret'[1] = "false") <=> isFull(inRing))
        /\ (ipc[1] = "run_copy" /\ ipc'[1] = "run_sync")
            => /\ ~inRing'.validParts[islot[1]]
               /\ countValidParts(inRing') = countValidParts(inRing) - 1
               /\ ~isFull(inRing')
      ]_vars

\* C24 as claimed: between calls the head pointer is the number of
\* successful stores modulo the part count and the read pointer the number
\* of successful reads modulo the part count; a read leaves the head
\* pointer alone, a store leaves the read pointer alone, and a failed
\* store or read changes neither.
C24_Pointers ==
    /\ ipc[1] = "idle" => /\ inRing.headPart = Len(storeLog) % RingParts
                          /\ inRing.readPart = loads % RingParts

C24_PointersKept ==
    [][ /\ ipc[1] \in {"st_scan", "st_lock", "st_write"}
            => inRing'.readPart = inRing.readPart
        /\ ipc[1] \in {"run_scan", "run_load", "run_copy"}
            => inRing'.headPart = inRing.headPart
        /\ (ipc[1] \in {"st_scan", "run_scan"} /\ ipc'[1] = "idle")
            => /\ inRing'.headPart = inRing.headPart
               /\ inRing'.readPart = inRing.readPart
      ]_vars

\* ---------------------------------------------------------------------
\* Size queries of both rings.
\* ---------------------------------------------------------------------
\* sizeof(T) of the element type (uint8_t in the unit tests)
SizeofT == 1

\* RingBuffer<T, multiThreaded>::size(SIZE_SPECIFIER): buffer.capacity() is
\* set by the constructor and no member calls set_capacity or resize
size(ss) ==
    CASE ss = "TOTAL_DATA_SIZE" -> Capacity
      [] ss = "BYTES"           -> Capacity * SizeofT
      [] ss = "BATCHSIZE"       -> Capacity \div ElementsPerPart
      [] ss = "FEATUREMAP_SIZE" -> ElementsPerPart
      [] OTHER                  -> 0

\* the valid-flag RingBuffer<T>::size(SIZE_SPECIFIER): buffer.size() is the
\* length of the std::vector holding all parts
RbSize(r, ss) ==
    LET elements[i \in 0..RingParts] ==
            IF i = 0 THEN 0 ELSE elements[i - 1] + Len(r.buffer[i - 1])
    IN  CASE ss = "ELEMENTS"          -> elements[RingParts]
          [] ss = "BYTES"             -> elements[RingParts] * SizeofT
          [] ss = "PARTS"             -> RingParts
          [] ss = "ELEMENTS_PER_PART" -> ElementsPerPart
          [] OTHER                    -> 0

\* the size queries that construction fixes, on both rings
C25_FixedSizes ==
    /\ size("BATCHSIZE") = Parts
    /\ size("FEATUREMAP_SIZE") = ElementsPerPart
    /\ size("TOTAL_DATA_SIZE") = Parts * ElementsPerPart
    /\ size("BYTES") = Parts * ElementsPerPart * SizeofT
    /\ Len(buffer) <= size("TOTAL_DATA_SIZE")
    /\ RbSize(inRing, "PARTS") = RingParts
    /\ RbSize(inRing, "ELEMENTS_PER_PART") = ElementsPerPart
    /\ RbSize(inRing, "ELEMENTS") = RingParts * ElementsPerPart
    /\ RbSize(inRing, "BYTES") = RingParts * ElementsPerPart * SizeofT

\* C25 as claimed: the capacity, part size, element count and byte size of
\* a ring never change, and the part count (size() of the circular ring,
\* countValidParts of the valid-flag ring) is the number of parts stored and
\* not yet read, 0 after construction.
C25_SizeQueries ==
    /\ C25_FixedSizes
    /\ MutexFree => Occupancy = storedParts - readParts
    /\ ipc[1] = "idle" => countValidParts(inRing) = Len(storeLog) - loads

(***************************************************************************)
(* Finn::Datatype<D> and its subclasses.  A double is kept as the fraction *)
(* [num, den] with den a power of two, so that the scaled limits of the    *)
(* fixed-point types are exact.                                            *)
(***************************************************************************)
\* largest template argument B of the datatypes that are queried
MaxBits == 2

\* largest bit-width asked of requiredElements
MaxWide == 130

\* 1U << n
RECURSIVE Pow2(_)
Pow2(n) == IF n = 0 THEN 1 ELSE 2 * Pow2(n - 1)

\* DatatypeUInt<B>, DatatypeInt<B>, DatatypeFixed<B, I>, DatatypeBipolar,
\* DatatypeTernary
Datatypes ==
    {[kind |-> k, B |-> b, I |-> 0] : k \in {"UInt", "Int"}, b \in 1..MaxBits}
    \cup {d \in [kind : {"Fixed"}, B : 1..MaxBits, I : 0..MaxBits] : d.I <= d.B}
    \cup {[kind |-> "Bipolar", B |-> 1, I |-> 0], [kind |-> "Ternary", B |-> 2, I |-> 0]}

signNever(D) == FALSE

\* sign() of each subclass
sign(D) == D.kind # "UInt"

bitwidthPlusOne(D) == D.B + 1

\* bitwidth() of each subclass
bitwidth(D) ==
    CASE D.kind = "Bipolar" -> 1
      [] D.kind = "Ternary" -> 2
      [] OTHER              -> D.B

min(D) ==
    CASE D.kind = "UInt"  -> [num |-> 0, den |-> 1]
      [] D.kind = "Int"   -> [num |-> 0 - Pow2(D.B - 1), den |-> 1]
      [] D.kind = "Fixed" -> LET fracBits == D.B - D.I
                             IN  [num |-> 0 - Pow2(D.B - 1), den |-> Pow2(fracBits)]
      [] OTHER            -> [num |-> -1, den |-> 1]

max(D) ==
    CASE D.kind = "UInt"  -> [num |-> Pow2(D.B) - 1, den |-> 1]
      [] D.kind = "Int"   -> [num |-> Pow2(D.B - 1) - 1, den |-> 1]
      [] D.kind = "Fixed" -> LET fracBits == D.B - D.I
                             IN  [num |-> Pow2(D.B - 1) - 1, den |-> Pow2(fracBits)]
      [] OTHER            -> [num |-> 1, den |-> 1]

\* allowedImpl of each subclass.  val is a value of the integral type T, int
\* or unsigned int: bits is the value as T's two's complement pattern, so
\* that [unsigned |-> TRUE, bits |-> -1] is UINT_MAX.  val >= min() &&
\* val <= max() converts val to double; val == -1 converts -1 to T, which
\* compares the patterns; val * (1U << I) is a product of unsigned int
\* converted back to T
allowedImpl(D, val) ==
    LET huge(x) == x.unsigned /\ x.bits < 0
        geq(x, q) == huge(x) \/ x.bits * q.den >= q.num
        leq(x, q) == ~huge(x) /\ x.bits * q.den <= q.num
    IN  CASE D.kind \in {"UInt", "Int"} ->
                 geq(val, min(D)) /\ leq(val, max(D))
          [] D.kind = "Fixed" ->
                 LET intEquivalent == [val EXCEPT !.bits = val.bits * Pow2(D.I)]
                 IN  geq(intEquivalent, min(D)) /\ leq(intEquivalent, max(D))
          [] D.kind = "Bipolar" -> val.bits = -1 \/ val.bits = 1
          [] D.kind = "Ternary" -> val.bits = -1 \/ val.bits = 1 \/ val.bits = 0

\* FinnUtils::ceil of the quotient num / den
ceil(num, den) == (num + den - 1) \div den

requiredElementsFloor(D, w) ==
    IF bitwidth(D) < w THEN 1 ELSE bitwidth(D) \div w

\* requiredElements<T>() with w = sizeof(T) * 8
requiredElements(D, w) ==
    IF bitwidth(D) < w THEN 1 ELSE ceil(bitwidth(D), w)

\* a caller asks allowed(val) of a datatype
AllowedCall(D, val) ==
    /\ fcall = [op |-> "none"]
    /\ fcall' = [op |-> "allowed", D |-> D, val |-> val]
    /\ fret' = [returned |-> TRUE, value |-> allowedImpl(D, val)]
    /\ UNCHANGED nonFn

\* a caller asks requiredElements<T>() of a datatype of bit-width b
RequiredElementsCall(D, w) ==
    /\ fcall = [op |-> "none"]
    /\ fcall' = [op |-> "requiredElements", D |-> D, w |-> w]
    /\ fret' = [returned |-> TRUE, value |-> requiredElements(D, w)]
    /\ UNCHANGED nonFn

(***************************************************************************)
(* Finn::pack and Finn::unpack, as inferSynchronous calls them.            *)
(***************************************************************************)
\* largest folded innermost dimension and longest value sequence packed
MaxK == 2

MaxPackLen == 4

\* pack: for each group of K values the values' b-bit representations one
\* after another, least significant bit first (two's complement, bipolar -1
\* as 0 and +1 as 1), padded with zero bits to whole bytes, each byte filled
\* from its lowest bit
RECURSIVE pack(_, _, _)
pack(D, K, v) ==
    LET b == bitwidth(D)
        nbytes == ceil(K * b, 8)
        valueBits(x) ==
            LET n == IF D.kind = "Bipolar" THEN (x + 1) \div 2 ELSE x % Pow2(b)
            IN  [i \in 1..b |-> (n \div Pow2(i - 1)) % 2]
        stream == [i \in 1..(8 * nbytes) |->
                      IF i <= K * b
                        THEN valueBits(v[((i - 1) \div b) + 1])[((i - 1) % b) + 1]
                        ELSE 0]
        byte(k) == LET s[i \in 0..8] ==
                           IF i = 0 THEN 0 ELSE s[i - 1] + stream[8 * k + i] * Pow2(i - 1)
                   IN  s[8]
    IN  IF Len(v) = 0 THEN <<>>
        ELSE [k \in 1..nbytes |-> byte(k - 1)] \o pack(D, K, SubSeq(v, K + 1, Len(v)))

\* unpack: for each group of ceil(K * b / 8) bytes the K values of b bits,
\* sign-extended for a signed type, bipolar 0 as -1 and 1 as +1
RECURSIVE unpack(_, _, _)
unpack(D, K, bytes) ==
    LET b == bitwidth(D)
        nbytes == ceil(K * b, 8)
        bit(i) == (bytes[((i - 1) \div 8) + 1] \div Pow2((i - 1) % 8)) % 2
        raw(j) == LET s[i \in 0..b] ==
                          IF i = 0 THEN 0 ELSE s[i - 1] + bit((j - 1) * b + i) * Pow2(i - 1)
                  IN  s[b]
        value(n) == IF D.kind = "Bipolar" THEN 2 * n - 1
                    ELSE IF sign(D) /\ n >= Pow2(b - 1) THEN n - Pow2(b)
                    ELSE n
    IN  IF Len(bytes) = 0 THEN <<>>
        ELSE [j \in 1..K |-> value(raw(j))]
                 \o unpack(D, K, SubSeq(bytes, nbytes + 1, Len(bytes)))

\* what a caller hands to inferSynchronous: values the datatype allows, in
\* whole groups of K; and the two worked examples of the packing format
PackInputs ==
    LET allowedValues(D) ==
            {x \in (0 - Pow2(MaxBits))..Pow2(MaxBits) :
                 allowedImpl(D, [unsigned |-> FALSE, bits |-> x])}
        groups(K) == {n \in 1..2 : K * n <= MaxPackLen}
    IN  UNION {UNION {[D : {D}, K : {K}, v : [1..(K * g) -> allowedValues(D)]] :
                         g \in groups(K)} :
                  D \in {d \in Datatypes : d.kind # "Fixed"}, K \in 1..MaxK}
        \cup {[D |-> [kind |-> "UInt", B |-> 2, I |-> 0], K |-> 4,
               v |-> <<0, 1, 2, 3, 3, 2, 1, 0>>],
              [D |-> [kind |-> "Bipolar", B |-> 1, I |-> 0], K |-> 8,
               v |-> <<-1, 1, 1, -1, -1, -1, 1, 1>>]}

\* auto packed = Finn::pack<F>(first, last)
PackCall(in) ==
    /\ fcall' = [op |-> "pack", D |-> in.D, K |-> in.K, v |-> in.v]
    /\ fret' = [returned |-> TRUE, value |-> pack(in.D, in.K, in.v)]
    /\ UNCHANGED nonFn

\* return unpack<S, V>(result), result being the packed bytes and S = F
UnpackCall ==
    /\ fcall.op = "pack"
    /\ fcall' = [fcall EXCEPT !.op = "unpack"]
    /\ fret' = [returned |-> TRUE, value |-> unpack(fcall.D, fcall.K, fret.value)]
    /\ UNCHANGED nonFn

\* the largest dimension of a shape given to a device buffer
MaxDim == 8

\* the shapes given to the constructor: one dimension, or an outer
\* dimension of 2 in front of it
Shapes == {<<d>> : d \in 1..MaxDim} \cup {<<2, d>> : d \in 1..MaxDim}

\* FinnUtils::innermostDimension: the last dimension of a shape
innermostDimension(shape) == shape[Len(shape)]

\* DeviceBuffer::DeviceBuffer: the innermost dimension the constructor
\* expects of the packed shape, an integer division and one more
calculatedInnermostDimension(b, pShapeFolded, sizeofT) ==
    ((b * innermostDimension(pShapeFolded)) \div (sizeofT * 8)) + 1

\* DeviceBuffer<T, F>::DeviceBuffer with F of bit-width b: the two checks of
\* the body; returned is FALSE when the constructor leaves with runtime_error
DeviceBufferCall(b, sizeofT, pShapeNormal, pShapeFolded, pShapePacked) ==
    /\ fcall = [op |-> "none"]
    /\ fcall' = [op |-> "DeviceBuffer", b |-> b, sizeofT |-> sizeofT,
                 shapeNormal |-> pShapeNormal, shapeFolded |-> pShapeFolded,
                 shapePacked |-> pShapePacked]
    /\ fret' = [returned |->
                    /\ shapeToElements(pShapeNormal) = shapeToElements(pShapeFolded)
                    /\ innermostDimension(pShapePacked)
                         = calculatedInnermostDimension(b, pShapeFolded, sizeofT),
                value |-> calculatedInnermostDimension(b, pShapeFolded, sizeofT)]
    /\ UNCHANGED nonFn

FnNext ==
    \/ /\ fcall = [op |-> "none"]
       /\ \E D \in Datatypes, u \in BOOLEAN,
             p \in (0 - Pow2(MaxBits) - 1)..(Pow2(MaxBits) + 1) :
              AllowedCall(D, [unsigned |-> u, bits |-> p])
    \/ /\ fcall = [op |-> "none"]
       /\ \E b \in 1..MaxWide, w \in {8, 16, 32, 64} :
              RequiredElementsCall([kind |-> "UInt", B |-> b, I |-> 0], w)
    \/ fcall = [op |-> "none"] /\ \E in \in PackInputs : PackCall(in)
    \/ UnpackCall
    \/ /\ fcall = [op |-> "none"]
       /\ \E b \in 1..MaxBits, sizeofT \in {1, 2},
             pShapeNormal \in Shapes, pShapeFolded \in Shapes, pShapePacked \in Shapes :
              DeviceBufferCall(b, sizeofT, pShapeNormal, pShapeFolded, pShapePacked)

FnSpec == ExtInit /\ [][FnNext]_vars

C28_IntegerDomains ==
    (fcall.op = "allowed" /\ fcall.D.kind # "Fixed") =>
        LET D == fcall.D
            val == fcall.val
            lo == CASE D.kind = "UInt" -> 0
                    [] D.kind = "Int"  -> 0 - Pow2(D.B - 1)
                    [] OTHER           -> -1
            hi == CASE D.kind = "UInt" -> Pow2(D.B) - 1
                    [] D.kind = "Int"  -> Pow2(D.B - 1) - 1
                    [] OTHER           -> 1
        IN  /\ min(D) = [num |-> lo, den |-> 1]
            /\ max(D) = [num |-> hi, den |-> 1]
            /\ fret.value <=>
                   /\ ~(val.unsigned /\ val.bits < 0)
                   /\ lo <= val.bits /\ val.bits <= hi
                   /\ D.kind = "Bipolar" => val.bits # 0

\* the same for values of a signed type T, and for the two integer
\* datatypes whatever T is
C28_SignedDomains ==
    (fcall.op = "allowed" /\ fcall.D.kind # "Fixed"
        /\ (~fcall.val.unsigned \/ fcall.D.kind \in {"UInt", "Int"})) =>
        C28_IntegerDomains

\* C29 as claimed: DatatypeFixed<b, i> with f = b - i has
\* min = -2^(b-1) * 2^-f and max = (2^(b-1) - 1) * 2^-f, and allowed(v)
\* holds for an integer v exactly when min <= v <= max, that is when
\* v * 2^f lies in [-2^(b-1), 2^(b-1) - 1].
C29_FixedDomain ==
    (fcall.op = "allowed" /\ fcall.D.kind = "Fixed") =>
        LET D == fcall.D
            val == fcall.val
            f == D.B - D.I
        IN  /\ min(D) = [num |-> 0 - Pow2(D.B - 1), den |-> Pow2(f)]
            /\ max(D) = [num |-> Pow2(D.B - 1) - 1, den |-> Pow2(f)]
            /\ fret.value <=>
                   /\ ~(val.unsigned /\ val.bits < 0)
                   /\ 0 - Pow2(D.B - 1) <= val.bits * Pow2(f)
                   /\ val.bits * Pow2(f) <= Pow2(D.B - 1) - 1

\* the limits of the fixed-point types are as claimed
C29_FixedLimits ==
    (fcall.op = "allowed" /\ fcall.D.kind = "Fixed") =>
        /\ min(fcall.D) = [num |-> 0 - Pow2(fcall.D.B - 1),
                           den |-> Pow2(fcall.D.B - fcall.D.I)]
        /\ max(fcall.D) = [num |-> Pow2(fcall.D.B - 1) - 1,
                           den |-> Pow2(fcall.D.B - fcall.D.I)]

\* C30: requiredElements<T>() of a datatype of bit-width b, with
\* w = 8 * sizeof(T) one of 8, 16, 32 and 64, returns 1 when b <= w and
\* ceil(b / w) otherwise.
C30_RequiredElements ==
    fcall.op = "requiredElements" =>
        LET b == fcall.D.B
            w == fcall.w
        IN  /\ b <= w => fret.value = 1
            /\ b > w => /\ fret.value * w >= b
                        /\ (fret.value - 1) * w < b

\* a width that is no multiple of the word width needed a partly used word
C30_Witness ==
    /\ fcall.op = "requiredElements"
    /\ fcall.D.B = 20
    /\ fcall.w = 8
    /\ fret.value = 3

(***************************************************************************)
(* BaseDriver: the defaults, their setters and inferSynchronous.           *)
(***************************************************************************)
\* the arguments of an inference: devices, kernel names, samples, forceArchival
InferArgs ==
    [inputDeviceIndex : 0..1, inputBufferKernelName : {"idma0", "odma0"},
     outputDeviceIndex : 0..1, outputBufferKernelName : {"idma0", "odma0"},
     samples : 1..MaxSamples, forceArchival : BOOLEAN]

setDefaultInputDeviceIndex(index) ==
    /\ defaultInputDeviceIndex' = index
    /\ scall' = [op |-> "setDefaultInputDeviceIndex", value |-> index]
    /\ UNCHANGED <<defaultInputKernelName, defaultOutputDeviceIndex,
                   defaultOutputKernelName, batchElements, forceAchieval, rawArgs>>
    /\ UNCHANGED nonBd

setDefaultOutputDeviceIndex(index) ==
    /\ defaultOutputDeviceIndex' = index
    /\ scall' = [op |-> "setDefaultOutputDeviceIndex", value |-> index]
    /\ UNCHANGED <<defaultInputDeviceIndex, defaultInputKernelName,
                   defaultOutputKernelName, batchElements, forceAchieval, rawArgs>>
    /\ UNCHANGED nonBd

setDefaultInputKernelName(kernelName) ==
    /\ defaultInputKernelName' = kernelName
    /\ scall' = [op |-> "setDefaultInputKernelName", value |-> kernelName]
    /\ UNCHANGED <<defaultInputDeviceIndex, defaultOutputDeviceIndex,
                   defaultOutputKernelName, batchElements, forceAchieval, rawArgs>>
    /\ UNCHANGED nonBd

\* the body assigns defaultInputKernelName
setDefaultOutputKernelName(kernelName) ==
    /\ defaultInputKernelName' = kernelName
    /\ scall' = [op |-> "setDefaultOutputKernelName", value |-> kernelName]
    /\ UNCHANGED <<defaultInputDeviceIndex, defaultOutputDeviceIndex,
                   defaultOutputKernelName, batchElements, forceAchieval, rawArgs>>
    /\ UNCHANGED nonBd

setBatchSize(elements) ==
    /\ batchElements' = elements
    /\ scall' = [op |-> "setBatchSize", value |-> elements]
    /\ UNCHANGED <<defaultInputDeviceIndex, defaultInputKernelName,
                   defaultOutputDeviceIndex, defaultOutputKernelName, forceAchieval,
                   rawArgs>>
    /\ UNCHANGED nonBd

setForceAchieval(force) ==
    /\ forceAchieval' = force
    /\ scall' = [op |-> "setForceAchieval", value |-> force]
    /\ UNCHANGED <<defaultInputDeviceIndex, defaultInputKernelName,
                   defaultOutputDeviceIndex, defaultOutputKernelName, batchElements,
                   rawArgs>>
    /\ UNCHANGED nonBd

\* the defaults as the argument-less overloads pass them on
defaultArgs ==
    [inputDeviceIndex |-> defaultInputDeviceIndex,
     inputBufferKernelName |-> defaultInputKernelName,
     outputDeviceIndex |-> defaultOutputDeviceIndex,
     outputBufferKernelName |-> defaultOutputKernelName,
     samples |-> batchElements,
     forceArchival |-> forceAchieval]

\* the arguments inferRaw receives from each overload of inferSynchronous:
\* (first, last, ...) hands its own on; (data, ...) calls (first, last, ...)
\* with the member forceAchieval in the place of its parameter forceArchival
inferSynchronous(overload, args) ==
    CASE overload = "iterator" -> args
      [] overload = "vector"   -> [args EXCEPT !.forceArchival = forceAchieval]

\* a caller makes an inference with explicit arguments, or with none; a
\* behaviour has one inference
InferSynchronousCall(overload, defaulted, args) ==
    /\ rawArgs = [op |-> "none"]
    /\ scall' = [op |-> "inferSynchronous", overload |-> overload,
                 defaulted |-> defaulted, args |-> args]
    /\ rawArgs' = inferSynchronous(overload, args)
    /\ UNCHANGED <<defaultInputDeviceIndex, defaultInputKernelName,
                   defaultOutputDeviceIndex, defaultOutputKernelName, batchElements,
                   forceAchieval>>
    /\ UNCHANGED nonBd

BdNext ==
    \/ \E index \in 0..1 : setDefaultInputDeviceIndex(index)
    \/ \E index \in 0..1 : setDefaultOutputDeviceIndex(index)
    \/ \E kernelName \in {"idma0", "odma0"} : setDefaultInputKernelName(kernelName)
    \/ \E kernelName \in {"idma0", "odma0"} : setDefaultOutputKernelName(kernelName)
    \/ \E elements \in 1..MaxSamples : setBatchSize(elements)
    \/ \E force \in BOOLEAN : setForceAchieval(force)
    \/ \E overload \in {"iterator", "vector"} :
           InferSynchronousCall(overload, TRUE, defaultArgs)
    \/ /\ rawArgs = [op |-> "none"]
       /\ \E overload \in {"iterator", "vector"}, args \in InferArgs :
              InferSynchronousCall(overload, FALSE, args)

BdSpec == ExtInit /\ [][BdNext]_vars

\* C31 as claimed: every setter changes its own default and nothing else
\* (setDefaultOutputKernelName(k) sets the default output kernel name to k
\* and leaves the default input kernel name alone), and inferSynchronous
\* without arguments passes the current defaults to inferRaw.
C31_Setters ==
    [][ LET kept(others) == others' = others
        IN  /\ scall'.op = "setDefaultInputDeviceIndex" =>
                   /\ defaultInputDeviceIndex' = scall'.value
                   /\ kept(<<defaultInputKernelName, defaultOutputDeviceIndex,
                             defaultOutputKernelName, batchElements, forceAchieval>>)
            /\ scall'.op = "setDefaultOutputDeviceIndex" =>
                   /\ defaultOutputDeviceIndex' = scall'.value
                   /\ kept(<<defaultInputDeviceIndex, defaultInputKernelName,
                             defaultOutputKernelName, batchElements, forceAchieval>>)
            /\ scall'.op = "setDefaultInputKernelName" =>
                   /\ defaultInputKernelName' = scall'.value
                   /\ kept(<<defaultInputDeviceIndex, defaultOutputDeviceIndex,
                             defaultOutputKernelName, batchElements, forceAchieval>>)
            /\ scall'.op = "setDefaultOutputKernelName" =>
                   /\ defaultOutputKernelName' = scall'.value
                   /\ kept(<<defaultInputDeviceIndex, defaultInputKernelName,
                             defaultOutputDeviceIndex, batchElements, forceAchieval>>)
            /\ scall'.op = "setBatchSize" =>
                   /\ batchElements' = scall'.value
                   /\ kept(<<defaultInputDeviceIndex, defaultInputKernelName,
                             defaultOutputDeviceIndex, defaultOutputKernelName,
                             forceAchieval>>)
            /\ scall'.op = "setForceAchieval" =>
                   /\ forceAchieval' = scall'.value
                   /\ kept(<<defaultInputDeviceIndex, defaultInputKernelName,
                             defaultOutputDeviceIndex, defaultOutputKernelName,
                             batchElements>>)
            /\ (scall'.op = "inferSynchronous" /\ scall'.defaulted) =>
                   rawArgs' = defaultArgs
      ]_vars

\* C32 as claimed: the devices, kernel names, sample count and forceArchival
\* a caller passes to inferSynchronous, through the iterator or the vector
\* overload, are the ones inferRaw receives, whatever the driver's default
\* force-archive flag is.
C32_Forwarded ==
    (scall.op = "inferSynchronous" /\ ~scall.defaulted) => rawArgs = scall.args

(***************************************************************************)
(* DeviceBuffer: the shape checks of the constructor.                      *)
(***************************************************************************)

\* C33 as claimed: the constructor accepts a (normal, folded, packed) shape
\* triple exactly when the normal and the folded shape have the same number
\* of elements and the innermost dimension of the packed shape is
\* ceil(K * b / (8 * sizeof(T))) for the folded innermost dimension K and
\* the bit-width b, also when K * b is a multiple of the host word width.
C33_PackedShape ==
    fcall.op = "DeviceBuffer" =>
        LET K == innermostDimension(fcall.shapeFolded)
            w == 8 * fcall.sizeofT
            packedInnermost == innermostDimension(fcall.shapePacked)
        IN  fret.returned
              <=> /\ shapeToElements(fcall.shapeNormal) = shapeToElements(fcall.shapeFolded)
                  /\ packedInnermost * w >= K * fcall.b
                  /\ (packedInnermost - 1) * w < K * fcall.b

(***************************************************************************)
(* BaseDriver::inferRaw: the failure path.                                 *)
(***************************************************************************)

\* C34: an inferRaw whose store returned false, or whose run returned
\* false, makes no call on the output buffer (no read, hence no kernel-run
\* of the output buffer, and no retrieveResults, the only calls that change
\* the output ring and the archive), and once it is over it has left with an
\* error and returned no data.
C34_FailurePath ==
    LET failed == \E i \in DOMAIN accLog :
                     /\ accLog[i].op \in {"store", "run"}
                     /\ ~accLog[i].result.raised
                     /\ ~accLog[i].result.value
    IN  (dcalls > 0 /\ failed) =>
            /\ \A i \in DOMAIN accLog : accLog[i].op \notin {"read", "retrieveResults"}
            /\ dpc \in {"run", "idle"}
            /\ dpc = "idle" => /\ dthrown # "none"
                               /\ dret = [returned |-> FALSE]
            /\ (dpc = "idle" /\ ~accLog[Len(accLog)].result.raised) =>
                   dthrown = "runtime_error"

\* the second inferRaw had its store rejected, ran a part all the same and
\* left with the runtime error
C34_Witness ==
    /\ dpc = "idle"
    /\ dcalls = 2
    /\ Len(accLog) = 3
    /\ accLog[2] = [op |-> "store", result |-> [raised |-> FALSE, value |-> FALSE]]
    /\ accLog[3] = [op |-> "run", result |-> [raised |-> FALSE, value |-> TRUE]]
    /\ dthrown = "runtime_error"
    /\ dret = [returned |-> FALSE]

(***************************************************************************)
(* BaseDriver::inferRaw on an input buffer that already holds parts.       *)
(***************************************************************************)

\* the input ring after q parts were stored into the new ring
RECURSIVE QueuedRing(_)
QueuedRing(q) ==
    IF q = 0 THEN RbNew ELSE RbStore(QueuedRing(q - 1), PartOf(q)).ring

\* the driver is constructed, and the application has stored up to
\* RingParts parts through the store function of the input buffer before
\* its first inferRaw; icalls counts the calls made from then on
QueuedInit ==
    /\ MtIdle
    /\ DrvInit
    /\ DhInit
    /\ FnIdle
    /\ BdIdle
    /\ StIdle
    /\ \E q \in 0..RingParts :
          /\ inRing = QueuedRing(q)
          /\ inNextId = q + 1
          /\ storeLog = [i \in 1..q |-> PartOf(i)]
    /\ partMutexes = [i \in PartIndex |-> NoThread]
    /\ headPartMutex = NoThread
    /\ runMutex = NoThread
    /\ inMap = ZeroPart
    /\ inDevice = ZeroPart
    /\ ipc = [t \in InThreads |-> "idle"]
    /\ islot = [t \in InThreads |-> -1]
    /\ idata = [t \in InThreads |-> ZeroPart]
    /\ iret = [t \in InThreads |-> "none"]
    /\ icalls = 0
    /\ loads = 0
    /\ kernelLog = <<>>
    /\ inflight = 0
    /\ inCallers = {1}
    /\ OutInit
    /\ outCallers = {1}

QueueSpec == QueuedInit /\ [][LoopNext]_vars

\* C39 as claimed: when the store of the first inferRaw is rejected, run is
\* not executed on the input buffer: once the call is over, the parts that
\* were queued before it (the ring was full) are all still queued, the ring
\* is as it was and no kernel-run was started.
C39_InputKept ==
    (/\ dcalls = 1
     /\ dpc = "idle"
     /\ Len(accLog) >= 2
     /\ accLog[2].op = "store"
     /\ ~accLog[2].result.value)
    => /\ \A i \in DOMAIN accLog : accLog[i].op # "run"
       /\ inRing = QueuedRing(RingParts)
       /\ loads = 0
       /\ kernelLog = <<>>

(***************************************************************************)
(* RingBuffer<T, true>::readAllValidParts and readWithoutInvalidation.     *)
(***************************************************************************)

\* a thread calls readAllValidParts(outputIt)
CallReadAll(t) ==
    /\ pc[t] = "idle"
    /\ ops[t] > 0
    /\ role[t] = "any"
    /\ ops' = [ops EXCEPT ![t] = @ - 1]
    /\ out' = [out EXCEPT ![t] = <<>>]
    /\ ret' = [ret EXCEPT ![t] = "none"]
    /\ pc' = [pc EXCEPT ![t] = "ra_lock"]
    /\ UNCHANGED <<buffer, readWriteMutex, waiting, arg, pos, stoken, role, nextId,
                   storedParts, readParts, storedIds, readLog>>
    /\ UNCHANGED nonMt

\* std::unique_lock lk(readWriteMutex); if (buffer.empty()) return false;
ReadAllLock(t) ==
    /\ pc[t] = "ra_lock"
    /\ MutexFree
    /\ IF buffer = <<>>
         THEN /\ pc' = [pc EXCEPT ![t] = "idle"]
              /\ ret' = [ret EXCEPT ![t] = "false"]
              /\ UNCHANGED readWriteMutex
         ELSE /\ pc' = [pc EXCEPT ![t] = "ra_copy"]
              /\ readWriteMutex' = t
              /\ UNCHANGED ret
    /\ UNCHANGED <<buffer, waiting, arg, pos, out, stoken, role, ops, nextId,
                   storedParts, readParts, storedIds, readLog>>
    /\ UNCHANGED nonMt

\* std::copy(buffer.begin(), buffer.end(), outputIt)
ReadAllCopy(t) ==
    /\ pc[t] = "ra_copy"
    /\ out' = [out EXCEPT ![t] = buffer]
    /\ pc' = [pc EXCEPT ![t] = "ra_clear"]
    /\ UNCHANGED <<buffer, readWriteMutex, waiting, arg, pos, ret, stoken, role,
                   ops, nextId, storedParts, readParts, storedIds, readLog>>
    /\ UNCHANGED nonMt

ReadAllClearOnePart(t) ==
    /\ pc[t] = "ra_clear"
    /\ buffer' = CbEraseFront(buffer, ElementsPerPart)
    /\ readWriteMutex' = NoThread
    /\ readParts' = readParts + 1
    /\ readLog' = Append(readLog, SubSeq(out[t], 1, ElementsPerPart))
    /\ pc' = [pc EXCEPT ![t] = "r_notify"]
    /\ UNCHANGED <<waiting, arg, pos, out, ret, stoken, role, ops, nextId,
                   storedParts, storedIds>>
    /\ UNCHANGED nonMt

\* buffer.clear(); lk.unlock(); the call goes on with cv.notify_one() and
\* return true, the end of read as well
ReadAllClear(t) ==
    /\ pc[t] = "ra_clear"
    /\ buffer' = <<>>
    /\ readWriteMutex' = NoThread
    /\ readParts' = readParts + (Len(out[t]) \div ElementsPerPart)
    /\ readLog' = readLog \o [i \in 1..(Len(out[t]) \div ElementsPerPart) |->
                                SubSeq(out[t], (i - 1) * ElementsPerPart + 1,
                                       i * ElementsPerPart)]
    /\ pc' = [pc EXCEPT ![t] = "r_notify"]
    /\ UNCHANGED <<waiting, arg, pos, out, ret, stoken, role, ops, nextId,
                   storedParts, storedIds>>
    /\ UNCHANGED nonMt

\* a thread calls readWithoutInvalidation(outputIt, index); pos keeps index
CallPeek(t, index) ==
    /\ pc[t] = "idle"
    /\ ops[t] > 0
    /\ role[t] = "any"
    /\ ops' = [ops EXCEPT ![t] = @ - 1]
    /\ out' = [out EXCEPT ![t] = <<>>]
    /\ pos' = [pos EXCEPT ![t] = index]
    /\ ret' = [ret EXCEPT ![t] = "none"]
    /\ pc' = [pc EXCEPT ![t] = "p_lock"]
    /\ UNCHANGED <<buffer, readWriteMutex, waiting, arg, stoken, role, nextId,
                   storedParts, readParts, storedIds, readLog>>
    /\ UNCHANGED nonMt

\* std::unique_lock lk(readWriteMutex); if (buffer.empty()) return false;
PeekLock(t) ==
    /\ pc[t] = "p_lock"
    /\ MutexFree
    /\ IF buffer = <<>>
         THEN /\ pc' = [pc EXCEPT ![t] = "idle"]
              /\ ret' = [ret EXCEPT ![t] = "false"]
              /\ UNCHANGED readWriteMutex
         ELSE /\ pc' = [pc EXCEPT ![t] = "p_copy"]
              /\ readWriteMutex' = t
              /\ UNCHANGED ret
    /\ UNCHANGED <<buffer, waiting, arg, pos, out, stoken, role, ops, nextId,
                   storedParts, readParts, storedIds, readLog>>
    /\ UNCHANGED nonMt

PeekCopyErases(t) ==
    /\ pc[t] = "p_copy"
    /\ out' = [out EXCEPT ![t] = buffer]
    /\ buffer' = CbEraseFront(buffer, ElementsPerPart)
    /\ readWriteMutex' = NoThread
    /\ pc' = [pc EXCEPT ![t] = "r_notify"]
    /\ UNCHANGED <<waiting, arg, pos, ret, stoken, role, ops, nextId,
                   storedParts, readParts, storedIds, readLog>>
    /\ UNCHANGED nonMt

\* the std::copy of the whole buffer (index == -1) or of part index, then
\* lk.unlock(); the call goes on with cv.notify_one() and return true.  No
\* test keeps begin() + elementsPerPart * (index + 1) inside the buffer: with
\* an index that names no buffered part the copy reads outside [begin, end),
\* which writes nothing or elements that are not buffered, or ends the
\* process before any thread takes another step.
PeekCopy(t) ==
    /\ pc[t] = "p_copy"
    /\ LET index == pos[t]
           first == ElementsPerPart * index
       IN  IF index = -1
             THEN /\ out' = [out EXCEPT ![t] = buffer]
                  /\ pc' = [pc EXCEPT ![t] = "r_notify"]
           ELSE IF index >= 0 /\ first + ElementsPerPart <= Len(buffer)
             THEN /\ out' = [out EXCEPT ![t] =
                                SubSeq(buffer, first + 1, first + ElementsPerPart)]
                  /\ pc' = [pc EXCEPT ![t] = "r_notify"]
           ELSE \/ /\ out' \in {[out EXCEPT ![t] = <<>>],
                               [out EXCEPT ![t] = ZeroPart]}
                   /\ pc' = [pc EXCEPT ![t] = "r_notify"]
                \/ /\ pc' = [u \in DOMAIN pc |-> "aborted"]
                   /\ UNCHANGED out
    /\ readWriteMutex' = NoThread
    /\ UNCHANGED <<buffer, waiting, arg, pos, ret, stoken, role, ops, nextId,
                   storedParts, readParts, storedIds, readLog>>
    /\ UNCHANGED nonMt

\* any thread stores, reads, drains or peeks; an index of -1 to Parts
DrainNext ==
    \E t \in Threads :
        \/ \E k \in 1..Parts : CallStore(t, k)
        \/ CallRead(t)
        \/ CallReadAll(t)
        \/ \E index \in (0 - 1)..Parts : CallPeek(t, index)
        \/ StoreStep(t)
        \/ ReadStep(t)
        \/ ReadAllLock(t)
        \/ ReadAllCopy(t)
        \/ ReadAllClear(t)
        \/ PeekLock(t)
        \/ PeekCopy(t)
        \/ SpuriousWake(t)

\* the ring after construction; the MaxCalls calls are split among two
\* threads in every way (the two are interchangeable)
DrainInit ==
    /\ MtInit
    /\ multiThreaded = TRUE
    /\ Others
    /\ role = [t \in Threads |-> "any"]
    /\ ops \in {f \in [Threads -> 0..MaxCalls] :
                  /\ f[Producer] + f[Consumer] = MaxCalls
                  /\ f[Producer] >= f[Consumer]
                  /\ \A t \in Threads \ {Producer, Consumer} : f[t] = 0}
    /\ plan = ops

DrainSpec == DrainInit /\ [][DrainNext]_vars

\* C35: readAllValidParts of a ring that holds k >= 1 parts has written all
\* k parts, in the order of the buffer, when it clears the buffer (no store
\* or read came in between), leaves the ring empty with the free space of
\* the whole capacity and returns true; on an empty ring it returns false,
\* has written nothing and leaves the ring as it is.
C35_DrainAll ==
    [][\A t \in Threads :
          /\ (pc[t] = "ra_clear" /\ pc'[t] # "ra_clear") =>
                /\ Len(buffer) >= ElementsPerPart
                /\ out[t] = buffer
                /\ buffer' = <<>>
                /\ Capacity - Len(buffer') = Parts * ElementsPerPart
                /\ readParts' = readParts + (Len(buffer) \div ElementsPerPart)
                /\ pc'[t] = "r_notify"
          /\ (pc[t] = "ra_lock" /\ pc'[t] = "idle") =>
                /\ buffer = <<>>
                /\ buffer' = buffer
                /\ out'[t] = <<>>
                /\ ret'[t] = "false"
          /\ (pc[t] = "ra_lock" /\ pc'[t] = "ra_copy") => buffer # <<>>
          /\ (pc[t] \in {"ra_copy", "ra_clear"} /\ pc'[t] = pc[t]) => buffer' = buffer
          /\ (pc[t] = "r_notify" /\ pc'[t] = "idle") => ret'[t] = "true"
      ]_vars

\* a drain wrote the two parts the ring held and has just emptied it, while
\* the other thread is about to store again
C35_Witness ==
    \E t \in Threads :
        /\ pc[t] = "r_notify"
        /\ Len(out[t]) = 2 * ElementsPerPart
        /\ out[t][1][1] # out[t][Len(out[t])][1]
        /\ buffer = <<>>
        /\ readParts = 2
        /\ \E u \in Threads : pc[u] = "s_lock"

\* C36: readWithoutInvalidation leaves the ring as it is, for every index:
\* no step of the call changes the buffered elements, their order or the
\* occupancy, so the read that follows returns the part that was the oldest
\* before the call; on an empty ring the call returns false.
C36_PeekKeeps ==
    [][\A t \in Threads :
          /\ (pc[t] \in {"p_lock", "p_copy"} /\ pc'[t] # pc[t]) =>
                /\ buffer' = buffer
                /\ readParts' = readParts
                /\ storedParts' = storedParts
          /\ (pc[t] = "p_copy" /\ pc'[t] = pc[t]) => buffer' = buffer
          /\ (pc[t] = "p_lock" /\ pc'[t] = "idle") =>
                /\ buffer = <<>>
                /\ ret'[t] = "false"
          /\ (pc[t] = "p_lock" /\ pc'[t] = "p_copy") => buffer # <<>>
          /\ (pc[t] = "p_copy" /\ pc'[t] = "r_notify" /\ pos[t] = -1) =>
                out'[t] = buffer
          /\ (/\ pc[t] = "p_copy" /\ pc'[t] = "r_notify" /\ pos[t] >= 0
              /\ ElementsPerPart * (pos[t] + 1) <= Len(buffer)) =>
                out'[t] = SubSeq(buffer, ElementsPerPart * pos[t] + 1,
                                 ElementsPerPart * (pos[t] + 1))
      ]_vars

\* a peek of index 1 has written the second of two buffered parts, and the
\* ring still holds both of them, unread
C36_Witness ==
    \E t \in Threads :
        /\ pc[t] = "r_notify"
        /\ pos[t] = 1
        /\ out[t] = PartOf(2)
        /\ buffer = PartsFrom(1, 2)
        /\ storedParts = 2
        /\ readParts = 0

(***************************************************************************)
(* Two producers and a consumer on the multi-threaded ring.                *)
(***************************************************************************)
\* largest number of stores of the first producer
MaxWakeCalls == 2

\* the second producer
SecondProducer == Consumer + 1

WakeThreads == {Producer, Consumer, SecondProducer}

\* the ring after construction; the first producer may make MaxWakeCalls
\* calls, the second producer and the consumer one call each
WakeInit ==
    /\ buffer = <<>>
    /\ readWriteMutex = NoThread
    /\ waiting = {}
    /\ pc = [t \in WakeThreads |-> "idle"]
    /\ arg = [t \in WakeThreads |-> <<>>]
    /\ pos = [t \in WakeThreads |-> 0]
    /\ out = [t \in WakeThreads |-> <<>>]
    /\ ret = [t \in WakeThreads |-> "none"]
    /\ stoken = [t \in WakeThreads |-> FALSE]
    /\ nextId = 1
    /\ storedParts = 0
    /\ readParts = 0
    /\ storedIds = {}
    /\ readLog = <<>>
    /\ multiThreaded = TRUE
    /\ Others
    /\ role = [t \in WakeThreads |-> "any"]
    /\ ops = [t \in WakeThreads |-> IF t = Producer THEN MaxWakeCalls ELSE 1]
    /\ plan = ops

\* the producers store data of 1 to Parts parts; the consumer reads one part
\* or all of them
WakeNext ==
    \/ \E t \in {Producer, SecondProducer} :
          \/ \E k \in 1..Parts : CallStore(t, k)
          \/ StoreStep(t)
    \/ CallRead(Consumer)
    \/ ReadStep(Consumer)
    \/ CallReadAll(Consumer)
    \/ ReadAllLock(Consumer)
    \/ ReadAllCopy(Consumer)
    \/ ReadAllClear(Consumer)
    \/ \E t \in WakeThreads : SpuriousWake(t)

\* A thread inside a call keeps running and gets the mutex when it is
\* released again and again; the 2000ms of a wait_for pass.  Nothing forces
\* a thread to make a call, and nothing forces a spurious wake-up.
WakeFairness ==
    /\ \A t \in {Producer, SecondProducer} : SF_vars(StoreStep(t))
    /\ SF_vars(ReadStep(Consumer))
    /\ SF_vars(ReadTimeoutReady(Consumer))
    /\ SF_vars(ReadAllLock(Consumer))
    /\ WF_vars(ReadAllCopy(Consumer))
    /\ WF_vars(ReadAllClear(Consumer))

WakeSpec == WakeInit /\ [][WakeNext]_vars /\ WakeFairness

\* C37 as claimed: no producer stays blocked in the wait of store for ever
\* while the ring has room for its data: again and again it is not waiting,
\* or the free space is smaller than the data it wants to store.
C37_NoLostWakeup ==
    \A t \in {Producer, SecondProducer} :
        []<>(pc[t] # "s_wait" \/ ~StoreFits(Len(arg[t])))

(***************************************************************************)
(* Concurrent stores into the ring of the device input buffer.             *)
(***************************************************************************)

\* C38 as claimed: stores that run concurrently write to distinct slots:
\* as long as no part was read, every part written by a store that returned
\* true is still held by a valid slot of the ring, so the number of valid
\* parts has grown by one with each of them.
C38_NoLostStore ==
    loads = 0 =>
        /\ \A i \in DOMAIN storeLog :
              \E indexP \in PartIndex :
                  /\ inRing.validParts[indexP]
                  /\ inRing.buffer[indexP] = storeLog[i]
        /\ countValidParts(inRing) = Len(storeLog)

====
